---- MODULE Spec2Model ----
(***************************************************************************)
(* Verification model of the sl-sh bytecode core (slvm).                   *)
(*                                                                         *)
(* Part I  models Chunk::disassemble_chunk and the operand decoders of     *)
(*         src/src/chunk/disassemble.rs, statement by statement.           *)
(* Part II models the execution engine (calls, tail calls, continuations,  *)
(*         defer and error unwinding).  The engine's source (slvm::vm) is  *)
(*         not among the files modelled; Part II follows the design        *)
(*         document (spec.md, sections 3 and 4.3).                         *)
(***************************************************************************)
EXTENDS Integers, Sequences, FiniteSets, TLC

(***************************************************************************)
(* Bounds of the model.                                                    *)
(***************************************************************************)
MaxItems == 3        \* encoded items concatenated into one instruction stream
MaxCut == 1          \* trailing bytes dropped from the stream (truncation)
MaxIp == 4           \* instructions of the executed chunk
MaxSteps == 6        \* instructions executed in one run
MaxCalls == 1        \* CALLM instructions executed in one run
MaxNesting == 2      \* CALLM instructions executed in one run of nested unwinding
MaxNestedSteps == 8  \* instructions executed in one run of nested unwinding
MaxTailCalls == 2    \* TCALLM instructions executed in one run
MaxDefers == 4       \* DFR instructions executed in one run
MaxConts == 1        \* continuations captured in one run
MaxInvokes == 1      \* continuation invocations in one run

(***************************************************************************)
(* PART I - the instruction codec as the disassembler decodes it.          *)
(***************************************************************************)

\* The opcode enumeration.  The numeric values are declared in
\* crate::opcodes; here an opcode's byte is its position (from 0) in the
\* order of the match arms of disassemble_instruction.  Every byte past the
\* last arm takes the default arm.
OpCodes ==
    << "NOP", "HALT", "RET", "SRET", "WIDE", "MOV", "SET", "CONST",
       "REF", "DEF", "DEFV", "REFI", "CLRREG", "REGT", "REGF", "REGN",
       "REGC", "REGB", "REGI", "REGU", "CLOSE", "BMOV", "CALL", "CALLG",
       "TCALL", "TCALLG", "CALLM", "TCALLM", "EQ", "EQUAL", "NOT", "ERR",
       "CCC", "DFR", "DFRPOP", "ONERR", "JMP", "JMPF", "JMPB", "JMPFT",
       "JMPBT", "JMPFF", "JMPBF", "JMP_T", "JMP_F", "JMPEQ", "JMPLT", "JMPGT",
       "JMPFU", "JMPBU", "JMPFNU", "JMPBNU", "ADD", "SUB", "MUL", "DIV",
       "ADDM", "SUBM", "MULM", "DIVM", "NUMEQ", "NUMNEQ", "NUMLT", "NUMGT",
       "NUMLTE", "NUMGTE", "INC", "DEC", "CONS", "CAR", "CDR", "XAR",
       "XDR", "LIST", "APND", "VECMK", "VECELS", "VECPSH", "VECPOP", "VECNTH",
       "VECSTH", "VECMKD", "VEC", "VECLEN", "VECCLR", "STR", "TYPE" >>

\* Mutation of OpOf: a byte that is no opcode is skipped like a NOP.
OpOfLenient(b) == IF b + 1 \in DOMAIN OpCodes THEN OpCodes[b + 1] ELSE "NOP"

\* The match of disassemble_instruction on the opcode byte: the arm taken.
OpOf(b) == IF b + 1 \in DOMAIN OpCodes THEN OpCodes[b + 1] ELSE "unknown"

\* The byte of a mnemonic (inverse of OpOf on the recognized set).
ByteOf(mn) == CHOOSE b \in 0..(Len(OpCodes) - 1) : OpCodes[b + 1] = mn

\* The operand list each match arm decodes, in order.  One entry per macro
\* call of the arm:
\*   "R"  disassemble_operand!(code, true, wide)
\*   "K"  disassemble_operand!(code, false, wide)
\*   "I"  disassemble_immediate!(code, wide)
\*   "GR" disassemble_operand!(code, true, wide) printed between "G[" and "]"
\*   "GB" disassemble_immediate_big!(code, wide) printed between "G[" and "]"
Operands(mn) ==
    CASE mn \in {"NOP", "HALT", "RET", "WIDE", "DFRPOP"}
            -> <<>>
      [] mn \in {"SRET", "CLRREG", "REGT", "REGF", "REGN", "REGC", "DFR",
                 "ONERR", "VECCLR"}
            -> <<"R">>
      [] mn \in {"MOV", "SET", "CLOSE", "NOT", "ERR", "CCC", "CAR", "CDR",
                 "XAR", "XDR", "VECMK", "VECELS", "VECPSH", "VECPOP",
                 "VECLEN", "TYPE"}
            -> <<"R", "R">>
      [] mn \in {"CONST"}
            -> <<"R", "K">>
      [] mn \in {"REF"}
            -> <<"R", "GR">>
      [] mn \in {"DEF", "DEFV"}
            -> <<"GR", "R">>
      [] mn \in {"REFI"}
            -> <<"R", "GB">>
      [] mn \in {"REGB", "REGI", "REGU", "TCALL", "JMPFT", "JMPBT", "JMPFF",
                 "JMPBF", "JMP_T", "JMP_F", "JMPFU", "JMPBU", "JMPFNU",
                 "JMPBNU", "INC", "DEC"}
            -> <<"R", "I">>
      [] mn \in {"BMOV", "JMPEQ", "JMPLT", "JMPGT"}
            -> <<"R", "R", "I">>
      [] mn \in {"CALL"}
            -> <<"R", "I", "R">>
      [] mn \in {"CALLG"}
            -> <<"GB", "I", "R">>
      [] mn \in {"TCALLG"}
            -> <<"GB", "I">>
      [] mn \in {"CALLM"}
            -> <<"I", "R">>
      [] mn \in {"TCALLM", "JMP", "JMPF", "JMPB"}
            -> <<"I">>
      [] mn \in {"EQ", "EQUAL", "ADD", "SUB", "MUL", "DIV", "ADDM", "SUBM",
                 "MULM", "DIVM", "NUMEQ", "NUMNEQ", "NUMLT", "NUMGT",
                 "NUMLTE", "NUMGTE", "CONS", "LIST", "APND", "VECNTH",
                 "VECSTH", "VECMKD", "VEC", "STR"}
            -> <<"R", "R", "R">>
      [] OTHER -> <<>>

VARIABLES
    code,      \* self.code: the chunk's instruction bytes
    pos,       \* number of items the iterator `code` has yielded so far
    op,        \* the loop variable `op`: <<>> for None, <<idx, byte>> for Some
    wide,      \* the loop variable `wide`
    dstate,    \* "idle" before the call, "running" in the loop,
               \* "ok" after Ok(()), "chunk_error" after Err(VMError::new_chunk)
    listing,   \* what has been printed: one record per decoded instruction
    lines,     \* the chunk's source-line table, by byte offset: <<>> for no
               \* line, <<l>> for line l
    last_line  \* the loop variable `last_line`

dvars == <<code, pos, op, wide, dstate, listing, lines, last_line>>

VARIABLES
    chunk,     \* the executing chunk's declared input_regs / extra_regs
    globals,   \* the global table, by index
    stack,     \* the value stack: registers and CallFrame markers
    frames,    \* the active calls, outermost first: window base, resume
               \* ip, destination register, defer stack, ONERR handler
    ip,        \* instruction pointer in the executing chunk
    conts,     \* the heap's Continuation objects, by handle
    vmstate,   \* "running", "returned" (Ok to the host), "error" (Err)
    host,      \* what the host received: the value or the error
    err_frame, \* the retained error frame: <<>> or <<frame>>
    ran,       \* history: the defer entries and handlers run so far
    captured,  \* history: stack and ip observed when a CCC executed
    count,     \* history: instructions executed, by kind
    last       \* history: the instruction executed last, its operands and
               \* the stack it started from

vmvars == <<chunk, globals, stack, frames, ip, conts, vmstate, host, err_frame,
            ran, captured, count, last>>

VARIABLES
    dbg,       \* "off", or "on" while the host is inside debug(vm)
    cmd,       \* the last line the debugger read: keyword and parameter
    out,       \* what the last debugger command printed, row by row
    interned   \* the strings the VM's interner holds

dbgvars == <<dbg, cmd, out, interned>>

VARIABLES
    dynamic_scope, \* environment.dynamic_scope: symbol -> value
    scopes,        \* environment.scopes: the stack of lexical scopes, each
                   \* with its bindings (data) and its enclosing scope
                   \* (outer: an index of the stack, 0 for the namespace)
    namespace,     \* the bindings of the current namespace
    ctl,           \* the dyn, lex and get-error forms being evaluated,
                   \* outermost first
    status,        \* "ok", or "err" while an error propagates outward
    ret,           \* the result of the form evaluated last
    elast          \* history: the builtin called last, its key and the number of forms evaluated

envvars == <<dynamic_scope, scopes, namespace, ctl, status, ret, elast>>

VARIABLES
    rtext,         \* the text given to the reader, a sequence of code points
    rforms,        \* the parts the text was written from: its top-level
                   \* forms, or the pieces of its string literal
    rmode,         \* the flags always_wrap and list_only of read2
    rres           \* the Result of the reader: nothing yet, an expression or a ReadError

rdvars == <<rtext, rforms, rmode, rres>>

VARIABLES
    theap,         \* the strings of the VM's heap, by handle
    tval,          \* the Value the host has at hand
    tsrc,          \* the host value tval was converted from, if it was
    tres           \* the VMResult of the last conversion of tval

tyvars == <<theap, tval, tsrc, tres>>

VARIABLES
    lbuf,          \* the characters of the line editor's Buffer
    lwords         \* what get_liner_words returned for it, if it was called

edvars == <<lbuf, lwords>>

VARIABLES
    kheap,         \* the lambdas of the VM's heap, by handle: the constants
                   \* and the code of each chunk
    kstack,        \* the calls of disassemble_chunk in progress, outermost
                   \* first
    kstate         \* "idle", "running", the result "ok" or "chunk_error",
                   \* or "aborted" when the calls exhausted the stack

kvars == <<kheap, kstack, kstate>>

\* The variables of the library the binding builtins leave alone.
nonenv == <<rdvars, tyvars, edvars, kvars>>

libvars == <<envvars, rdvars, tyvars, edvars, kvars>>

vars == <<dvars, vmvars, dbgvars, libvars>>

\* Chunk::offset_to_line(idx): None (<<>>) or Some(line) (<<line>>).
offset_to_line(idx) == IF idx + 1 \in DOMAIN lines THEN lines[idx + 1] ELSE <<>>

\* What the line column of a row shows (lines 896-904): the line number
\* (<<line>>) when the offset has a line other than last_line, the
\* placeholder (<<>>) when it has the same line or none.
LineColumn(o, ll) == IF o # <<>> /\ ll # o[1] THEN o ELSE <<>>

\* Mutation of NextLastLine: last_line is never assigned.
NextLastLineKept(o, ll) == ll

\* last_line after the line column is printed (line 899).
NextLastLine(o, ll) == IF o # <<>> /\ ll # o[1] THEN o[1] ELSE ll

\* Iterator::next on `self.code.iter().cloned().enumerate()` at position p:
\* <<>> for None, <<idx, byte>> for Some((idx, byte)).
IterNext(bytes, p) == IF p < Len(bytes) THEN <<p, bytes[p + 1]>> ELSE <<>>

\* Position of the iterator after one call of next.
IterAdvance(bytes, p) == IF p < Len(bytes) THEN p + 1 ELSE p

\* A decoder's result: ok = FALSE stands for Err(VMError::new_chunk(..)).
Decoded(okv, v, p) == [ok |-> okv, val |-> v, pos |-> p]

\* Mutation of decode_u8_enum: a missing byte reads as zero.
decode_u8_zero_fill(bytes, p) ==
    IF IterNext(bytes, p) # <<>>
    THEN Decoded(TRUE, IterNext(bytes, p)[2], p + 1)
    ELSE Decoded(TRUE, 0, p + 1)

\* decode_u8_enum!
decode_u8_enum(bytes, p) ==
    IF IterNext(bytes, p) # <<>>
    THEN Decoded(TRUE, IterNext(bytes, p)[2], p + 1)
    ELSE Decoded(FALSE, 0, p)

\* Mutation of decode_u16_enum: the low byte first.
decode_u16_little_endian(bytes, p) ==
    IF IterNext(bytes, p) # <<>>
    THEN IF IterNext(bytes, p + 1) # <<>>
         THEN Decoded(TRUE, IterNext(bytes, p + 1)[2] * 256
                            + IterNext(bytes, p)[2], p + 2)
         ELSE Decoded(FALSE, 0, p + 1)
    ELSE Decoded(FALSE, 0, p)

\* decode_u16_enum!: ((idx1 as u16) << 8) | (idx2 as u16)
decode_u16_enum(bytes, p) ==
    IF IterNext(bytes, p) # <<>>
    THEN IF IterNext(bytes, p + 1) # <<>>
         THEN Decoded(TRUE, IterNext(bytes, p)[2] * 256
                            + IterNext(bytes, p + 1)[2], p + 2)
         ELSE Decoded(FALSE, 0, p + 1)
    ELSE Decoded(FALSE, 0, p)

\* decode_u32_enum!: idx1 << 24 | idx2 << 16 | idx3 << 8 | idx4.  The value
\* is held as its two 16-bit halves <<idx1 << 8 | idx2, idx3 << 8 | idx4>>,
\* a full u32 being wider than the integers of the model checker.
decode_u32_enum(bytes, p) ==
    IF IterNext(bytes, p) # <<>>
    THEN IF IterNext(bytes, p + 1) # <<>>
         THEN IF IterNext(bytes, p + 2) # <<>>
              THEN IF IterNext(bytes, p + 3) # <<>>
                   THEN Decoded(TRUE,
                                << IterNext(bytes, p)[2] * 256
                                   + IterNext(bytes, p + 1)[2],
                                   IterNext(bytes, p + 2)[2] * 256
                                   + IterNext(bytes, p + 3)[2] >>,
                                p + 4)
                   ELSE Decoded(FALSE, 0, p + 3)
              ELSE Decoded(FALSE, 0, p + 2)
         ELSE Decoded(FALSE, 0, p + 1)
    ELSE Decoded(FALSE, 0, p)

\* disassemble_operand!: both the register and the constant branch decode a
\* u16 when wide and a u8 otherwise (they differ in the printed prefix only).
disassemble_operand(bytes, p, register, w) ==
    IF register
    THEN (IF w THEN decode_u16_enum(bytes, p) ELSE decode_u8_enum(bytes, p))
    ELSE (IF w THEN decode_u16_enum(bytes, p) ELSE decode_u8_enum(bytes, p))

\* disassemble_immediate!
disassemble_immediate(bytes, p, w) ==
    IF w THEN decode_u16_enum(bytes, p) ELSE decode_u8_enum(bytes, p)

\* Mutation of disassemble_immediate_big: the widths of a plain immediate.
disassemble_immediate_big_narrow(bytes, p, w) ==
    IF w THEN decode_u16_enum(bytes, p) ELSE decode_u8_enum(bytes, p)

\* disassemble_immediate_big!
disassemble_immediate_big(bytes, p, w) ==
    IF w THEN decode_u32_enum(bytes, p) ELSE decode_u16_enum(bytes, p)

\* The macro call an operand kind of the table stands for.
DecodeOperand(kind, bytes, p, w) ==
    CASE kind \in {"R", "GR"} -> disassemble_operand(bytes, p, TRUE, w)
      [] kind = "K"           -> disassemble_operand(bytes, p, FALSE, w)
      [] kind = "I"           -> disassemble_immediate(bytes, p, w)
      [] kind = "GB"          -> disassemble_immediate_big(bytes, p, w)

HexDigits ==
    <<"0", "1", "2", "3", "4", "5", "6", "7", "8", "9",
      "a", "b", "c", "d", "e", "f">>

\* Mutation of Hex: no leading zeros, one digit at least.
RECURSIVE HexUnpadded(_, _)
HexUnpadded(v, n) ==
    IF v < 16 THEN <<HexDigits[v + 1]>>
    ELSE Append(HexUnpadded(v \div 16, n), HexDigits[(v % 16) + 1])

\* The n low hexadecimal digits of v, zero padded, lower case.
RECURSIVE Hex(_, _)
Hex(v, n) ==
    IF n = 0 THEN <<>>
    ELSE Append(Hex(v \div 16, n - 1), HexDigits[(v % 16) + 1])

\* The format {:#04x}, {:#06x} or {:#010x} (total = 4, 6, 10) applied to a
\* u8, a u16 or a u32 held as two halves: "0x" and total - 2 digits.
FormatHex(v, total) ==
    IF total = 10 THEN <<"0x">> \o Hex(v[1], 4) \o Hex(v[2], 4)
    ELSE <<"0x">> \o Hex(v, total - 2)

\* What the macro call of an operand kind prints for the decoded value v,
\* with the "G[" and "]" the match arm prints around a global operand.
PrintOperand(kind, v, w) ==
    CASE kind = "R"  -> <<"R(">> \o FormatHex(v, IF w THEN 6 ELSE 4) \o <<")">>
      [] kind = "K"  -> <<"K(">> \o FormatHex(v, IF w THEN 6 ELSE 4) \o <<")">>
      [] kind = "I"  -> FormatHex(v, IF w THEN 6 ELSE 4)
      [] kind = "GR" -> <<"G[", "R(">> \o FormatHex(v, IF w THEN 6 ELSE 4)
                        \o <<")", "]">>
      [] kind = "GB" -> <<"G[">> \o FormatHex(v, IF w THEN 10 ELSE 6)
                        \o <<"]">>

\* The operand macros of one match arm, run in order; the `?` after each
\* decoder leaves the arm at the first Err.  `done` collects what was
\* printed for the operands decoded so far.
RECURSIVE DecodeOperands(_, _, _, _, _)
DecodeOperands(kinds, bytes, p, w, done) ==
    IF kinds = <<>>
    THEN [ok |-> TRUE, pos |-> p, ops |-> done]
    ELSE LET d == DecodeOperand(Head(kinds), bytes, p, w)
         IN  IF ~d.ok
             THEN [ok |-> FALSE, pos |-> d.pos, ops |-> done]
             ELSE DecodeOperands(Tail(kinds), bytes, d.pos, w,
                                 Append(done, [kind  |-> Head(kinds),
                                               at    |-> p,
                                               width |-> d.pos - p,
                                               val   |-> d.val,
                                               text  |-> PrintOperand(
                                                            Head(kinds),
                                                            d.val, w)]))

\* Mutation of disassemble_instruction: once wide, the flag stays set.
disassemble_instruction_sticky(bytes, p, opbyte, w) ==
    IF OpOf(opbyte) = "unknown"
    THEN [ok |-> FALSE, ret |-> FALSE, pos |-> p, ops |-> <<>>]
    ELSE LET r == DecodeOperands(Operands(OpOf(opbyte)), bytes, p, w, <<>>)
         IN  [ok |-> r.ok, ret |-> (r.ok /\ (w \/ OpOf(opbyte) = "WIDE")),
              pos |-> r.pos, ops |-> r.ops]

\* Chunk::disassemble_instruction(code, op, wide): `ret` is the returned
\* bool (Ok(true) only in the WIDE arm), ok = FALSE is an Err, which the
\* default arm returns for every byte that is no opcode.
disassemble_instruction(bytes, p, opbyte, w) ==
    IF OpOf(opbyte) = "unknown"
    THEN [ok |-> FALSE, ret |-> FALSE, pos |-> p, ops |-> <<>>]
    ELSE LET r == DecodeOperands(Operands(OpOf(opbyte)), bytes, p, w, <<>>)
         IN  [ok |-> r.ok, ret |-> (r.ok /\ OpOf(opbyte) = "WIDE"),
              pos |-> r.pos, ops |-> r.ops]

(***************************************************************************)
(* The instruction streams the disassembler is run on: every concatenation *)
(* of at most MaxItems items, an item being a single raw byte or an opcode *)
(* followed by its operands at narrow or at wide width (a wide encoding is *)
(* not preceded by WIDE unless a raw WIDE byte is put there), with at most *)
(* MaxCut trailing bytes dropped.  Raw bytes make streams that are not     *)
(* well formed: a WIDE prefix before anything, an opcode without its       *)
(* operands, a byte that is no opcode.                                     *)
(***************************************************************************)
RawBytes == {ByteOf("WIDE"), ByteOf("MOV"), ByteOf("REFI"), 200}

GenOps == {"MOV", "CONST", "REF", "REFI", "TCALLG"}

SmallVal == 10            \* 0x0a, an index that fits one byte
LargeVal == 16945151      \* 0x01028fff, every byte of a u32 different

\* The n low bytes of v, most significant first.
RECURSIVE BigEndian(_, _)
BigEndian(v, n) ==
    IF n = 0 THEN <<>> ELSE Append(BigEndian(v \div 256, n - 1), v % 256)

EncodedWidth(kind, w) ==
    IF kind = "GB" THEN (IF w THEN 4 ELSE 2) ELSE (IF w THEN 2 ELSE 1)

RECURSIVE EncodeOperands(_, _, _)
EncodeOperands(kinds, w, v) ==
    IF kinds = <<>> THEN <<>>
    ELSE BigEndian(v, EncodedWidth(Head(kinds), w))
         \o EncodeOperands(Tail(kinds), w, v)

Encode(mn, w, v) == <<ByteOf(mn)>> \o EncodeOperands(Operands(mn), w, v)

\* chunk.encode2(MOV, 10, 15, Some(1)) of the disassemble binary.
MovMain == <<ByteOf("MOV"), 10, 15>>

Items ==
    {<<b>> : b \in RawBytes}
    \cup {MovMain}
    \cup {Encode(mn, FALSE, SmallVal) : mn \in GenOps}
    \cup {Encode(mn, TRUE, LargeVal) : mn \in GenOps}
    \cup {Encode("SRET", TRUE, SmallVal)}

RECURSIVE Flatten(_)
Flatten(ss) == IF ss = <<>> THEN <<>> ELSE Head(ss) \o Flatten(Tail(ss))

CutTail(bytes, c) ==
    IF c >= Len(bytes) THEN <<>> ELSE SubSeq(bytes, 1, Len(bytes) - c)

CodeInputs ==
    {CutTail(Flatten(ss), c) :
        ss \in UNION {[1..n -> Items] : n \in 0..MaxItems}, c \in 0..MaxCut}

(***************************************************************************)
(* Chunk::disassemble_chunk, one action per step of its instruction loop.  *)
(***************************************************************************)

\* let mut code = ..enumerate(); let mut op = code.next();
\* let mut last_line = 0; let mut wide = false;
DisassembleChunk ==
    /\ dstate = "idle"
    /\ op' = IterNext(code, 0)
    /\ pos' = IterAdvance(code, 0)
    /\ wide' = FALSE
    /\ listing' = <<>>
    /\ last_line' = 0
    /\ dstate' = "running"
    /\ UNCHANGED <<code, lines>>
    /\ UNCHANGED <<vmvars, dbgvars, libvars>>

\* One iteration of `while let Some((idx, curr_op)) = op` in which
\* disassemble_instruction returns Ok: wide takes the returned flag and op
\* the next item of the iterator.
LoopDecoded ==
    /\ dstate = "running"
    /\ op # <<>>
    /\ LET r == disassemble_instruction(code, pos, op[2], wide)
       IN  /\ r.ok
           /\ wide' = r.ret
           /\ listing' = Append(listing, [off  |-> op[1],
                                          line |-> LineColumn(
                                                      offset_to_line(op[1]),
                                                      last_line),
                                          mn   |-> OpOf(op[2]),
                                          wide |-> wide,
                                          ops  |-> r.ops])
           /\ op' = IterNext(code, r.pos)
           /\ pos' = IterAdvance(code, r.pos)
    /\ last_line' = NextLastLine(offset_to_line(op[1]), last_line)
    /\ UNCHANGED <<code, dstate, lines>>
    /\ UNCHANGED <<vmvars, dbgvars, libvars>>

\* One iteration in which disassemble_instruction returns Err: the `?`
\* returns the VMError::new_chunk error from disassemble_chunk.
LoopFailed ==
    /\ dstate = "running"
    /\ op # <<>>
    /\ LET r == disassemble_instruction(code, pos, op[2], wide)
       IN  /\ ~r.ok
           /\ pos' = r.pos
    /\ dstate' = "chunk_error"
    /\ last_line' = NextLastLine(offset_to_line(op[1]), last_line)
    /\ UNCHANGED <<code, op, wide, listing, lines>>
    /\ UNCHANGED <<vmvars, dbgvars, libvars>>

\* The loop condition fails (op is None): Ok(()).
LoopExit ==
    /\ dstate = "running"
    /\ op = <<>>
    /\ dstate' = "ok"
    /\ UNCHANGED <<code, pos, op, wide, listing, lines, last_line>>
    /\ UNCHANGED <<vmvars, dbgvars, libvars>>

(***************************************************************************)
(* PART II - the execution engine.                                         *)
(*                                                                         *)
(* The executing chunk is left open: at each instruction pointer the       *)
(* engine may meet any instruction of the modelled subset with any         *)
(* operands that address the register window, so a behaviour of the model  *)
(* is a run of some chunk of at most MaxIp instructions.  Closures are     *)
(* opaque: running a defer entry or a handler is recorded in `ran`, and a  *)
(* handler completes normally with some value.                             *)
(***************************************************************************)

\* Value: a tagged union; v is the immediate payload or the heap handle.
Undef == [tag |-> "Undefined", v |-> 0]
IntV(n) == [tag |-> "Int", v |-> n]
ClosureV(c) == [tag |-> "Closure", v |-> c]
ContV(h) == [tag |-> "Continuation", v |-> h]
CallFrameV(id) == [tag |-> "CallFrame", v |-> id]

Ints == {42, 99}          \* the integers instructions load

\* The declared register usage of the chunks executed.
Chunks == {[input_regs |-> 1, extra_regs |-> 0]}
ClosureIds == {1}         \* the closures instructions build

\* The global table the host set up: one global bound to a closure.
HostGlobals == <<ClosureV(1)>>

\* Register window: input_regs + extra_regs + 1 slots, slot 0 for
\* parameters-in / result-out.
WindowSize(c) == c.input_regs + c.extra_regs + 1

Regs == 0..(WindowSize(chunk) - 1)

\* The active (innermost) call.
Cur == frames[Len(frames)]

\* Register r of the window at `base` (the number of stack slots below it).
RegAt(st, base, r) == st[base + r + 1]

Reg(r) == RegAt(stack, Cur.base, r)

\* Mutation of SetReg: the register index is taken as a stack index.
SetRegAbsolute(st, base, r, val) == [st EXCEPT ![r + 1] = val]

SetReg(st, base, r, val) == [st EXCEPT ![base + r + 1] = val]

\* Call-stack depth: the CallFrame markers on the value stack.
CallDepth(st) == Cardinality({i \in DOMAIN st : st[i].tag = "CallFrame"})

\* CallFrame: window base, the instruction pointer to resume in the caller,
\* the caller's destination register, a unique id; each frame owns a LIFO
\* defer stack and at most one ONERR handler (Undef for none).
NewFrame(id, base, ret_ip, dest) ==
    [id |-> id, base |-> base, ret_ip |-> ret_ip, dest |-> dest,
     defers |-> <<>>, onerr |-> Undef]

\* An entry of the history `ran`.
Event(kind, id, frame, fn, tag, payload, res) ==
    [kind |-> kind, id |-> id, frame |-> frame, fn |-> fn,
     tag |-> tag, payload |-> payload, res |-> res]

\* Mutation of RunDefers: first pushed first.
RunDefersFifo(f) ==
    [i \in 1..Len(f.defers) |->
        Event("defer", f.defers[i].id, f.id, f.defers[i].fn,
              Undef, Undef, Undef)]

\* The defer entries of frame f run: last pushed first.
RunDefers(f) ==
    [i \in 1..Len(f.defers) |->
        Event("defer", f.defers[Len(f.defers) - i + 1].id, f.id,
              f.defers[Len(f.defers) - i + 1].fn, Undef, Undef, Undef)]

\* The engine fetches an instruction.
Fetch == vmstate = "running" /\ ip < MaxIp

Bump(kind) == [count EXCEPT ![kind] = @ + 1]

\* The history of the instruction being executed.
Did(name, a, b) ==
    last' = [op |-> name, a |-> a, b |-> b, pre |-> stack, n |-> last.n + 1]

\* REGI: R(r) = inline integer n.
REGI(r, n) ==
    /\ Fetch
    /\ stack' = SetReg(stack, Cur.base, r, IntV(n))
    /\ ip' = ip + 1
    /\ UNCHANGED <<chunk, globals, frames, conts, vmstate, host, err_frame,
                   ran, captured, count>>
    /\ Did("REGI", r, n)
    /\ UNCHANGED <<dvars, dbgvars, libvars>>

\* CLOSE: R(r) = a closure built from lambda c.
CLOSE(r, c) ==
    /\ Fetch
    /\ stack' = SetReg(stack, Cur.base, r, ClosureV(c))
    /\ ip' = ip + 1
    /\ UNCHANGED <<chunk, globals, frames, conts, vmstate, host, err_frame,
                   ran, captured, count>>
    /\ Did("CLOSE", r, c)
    /\ UNCHANGED <<dvars, dbgvars, libvars>>

\* Mutation of ADD: the sum replaces the first operand, as the in-place
\* form ADDM does.
ADDInPlace(d, a, b) ==
    /\ Fetch
    /\ IF Reg(a).tag = "Int" /\ Reg(b).tag = "Int"
       THEN /\ stack' = SetReg(stack, Cur.base, a, IntV(Reg(a).v + Reg(b).v))
            /\ ip' = ip + 1
            /\ UNCHANGED <<vmstate, host, err_frame>>
       ELSE /\ vmstate' = "error"
            /\ host' = [kind |-> "error", tag |-> Undef, val |-> Undef]
            /\ err_frame' = <<[id |-> Cur.id, base |-> Cur.base, ip |-> ip]>>
            /\ UNCHANGED <<stack, ip>>
    /\ UNCHANGED <<chunk, globals, frames, conts, ran, captured, count>>
    /\ Did("ADD", d, a)
    /\ UNCHANGED <<dvars, dbgvars, libvars>>

\* ADD: R(d) = R(a) + R(b).  An operand that is no number is a runtime
\* value error; no handler is registered where the model uses ADD, so the
\* error reaches the host and the failing frame is retained.
ADD(d, a, b) ==
    /\ Fetch
    /\ IF Reg(a).tag = "Int" /\ Reg(b).tag = "Int"
       THEN /\ stack' = SetReg(stack, Cur.base, d, IntV(Reg(a).v + Reg(b).v))
            /\ ip' = ip + 1
            /\ UNCHANGED <<vmstate, host, err_frame>>
       ELSE /\ vmstate' = "error"
            /\ host' = [kind |-> "error", tag |-> Undef, val |-> Undef]
            /\ err_frame' = <<[id |-> Cur.id, base |-> Cur.base, ip |-> ip]>>
            /\ UNCHANGED <<stack, ip>>
    /\ UNCHANGED <<chunk, globals, frames, conts, ran, captured, count>>
    /\ Did("ADD", d, a)
    /\ UNCHANGED <<dvars, dbgvars, libvars>>

\* The window a call sets up: slot 0 empty, the na argument registers
\* R(r+1)..R(r+na) of the caller in the low registers, the rest empty.
CalleeWindow(na, r) ==
    [i \in 1..WindowSize(chunk) |->
        IF i - 1 \in 1..na THEN Reg(r + i - 1) ELSE Undef]

\* CALLM: call the executing chunk with na arguments, result to R(r).
\* Pushes a CallFrame marker and a new window; control goes to instruction 0.
CALLM(na, r) ==
    /\ Fetch
    /\ r + na \in Regs
    /\ stack' = stack \o <<CallFrameV(count.call + 1)>> \o CalleeWindow(na, r)
    /\ frames' = Append(frames,
                        NewFrame(count.call + 1, Len(stack) + 1, ip + 1, r))
    /\ ip' = 0
    /\ count' = Bump("call")
    /\ UNCHANGED <<chunk, globals, conts, vmstate, host, err_frame, ran,
                   captured>>
    /\ Did("CALLM", na, r)
    /\ UNCHANGED <<dvars, dbgvars, libvars>>

\* CALL: call the closure in R(f) with na arguments, result to R(r).
CALL(f, na, r) ==
    /\ Fetch
    /\ Reg(f).tag = "Closure"
    /\ r + na \in Regs
    /\ stack' = stack \o <<CallFrameV(count.call + 1)>> \o CalleeWindow(na, r)
    /\ frames' = Append(frames,
                        NewFrame(count.call + 1, Len(stack) + 1, ip + 1, r))
    /\ ip' = 0
    /\ count' = Bump("call")
    /\ UNCHANGED <<chunk, globals, conts, vmstate, host, err_frame, ran,
                   captured>>
    /\ Did("CALL", na, r)
    /\ UNCHANGED <<dvars, dbgvars, libvars>>

\* CALLG: call the closure bound to global g with na arguments, result to
\* R(r).
CALLG(g, na, r) ==
    /\ Fetch
    /\ g \in DOMAIN globals
    /\ globals[g].tag = "Closure"
    /\ r + na \in Regs
    /\ stack' = stack \o <<CallFrameV(count.call + 1)>> \o CalleeWindow(na, r)
    /\ frames' = Append(frames,
                        NewFrame(count.call + 1, Len(stack) + 1, ip + 1, r))
    /\ ip' = 0
    /\ count' = Bump("call")
    /\ UNCHANGED <<chunk, globals, conts, vmstate, host, err_frame, ran,
                   captured>>
    /\ Did("CALLG", na, r)
    /\ UNCHANGED <<dvars, dbgvars, libvars>>

\* Mutation of TailWindow: a tail call sets up its window like a call, on
\* top of a CallFrame marker.
TailWindowPush(st, base, na) ==
    st \o <<CallFrameV(0)>>
       \o [i \in 1..(Len(st) - base) |->
              IF i - 1 \in 1..na THEN st[base + i] ELSE Undef]

\* The stack after a tail call with na arguments: the current window is
\* reused in place, the registers above the arguments are emptied.
TailWindow(st, base, na) ==
    [i \in DOMAIN st |-> IF i > base + na + 1 THEN Undef ELSE st[i]]

\* TCALLM: tail-call the executing chunk with the na arguments in
\* R(1)..R(na).
TCALLM(na) ==
    /\ Fetch
    /\ count.tcall < MaxTailCalls
    /\ na \in Regs
    /\ stack' = TailWindow(stack, Cur.base, na)
    /\ ip' = 0
    /\ count' = Bump("tcall")
    /\ UNCHANGED <<chunk, globals, frames, conts, vmstate, host, err_frame,
                   ran, captured>>
    /\ Did("TCALLM", na, 0)
    /\ UNCHANGED <<dvars, dbgvars, libvars>>

\* Mutation of PopFrame: the result goes to the caller's slot 0.
PopFrameSlot0(st, fs, f, val) ==
    SetReg(SubSeq(st, 1, f.base - 1), fs[Len(fs) - 1].base, 0, val)

\* The stack after the innermost frame f returned val to its caller: the
\* marker and the window are popped, val is in the destination register.
PopFrame(st, fs, f, val) ==
    SetReg(SubSeq(st, 1, f.base - 1), fs[Len(fs) - 1].base, f.dest, val)

\* A normal return of the active frame with result val: its defer entries
\* run, then the frame is popped and the caller resumes at the saved
\* instruction pointer; the outermost frame returns to the host.
Return(val) ==
    /\ ran' = ran \o RunDefers(Cur)
    /\ IF Len(frames) = 1
       THEN /\ vmstate' = "returned"
            /\ host' = [kind |-> "value", tag |-> Undef, val |-> val]
            /\ frames' = <<[Cur EXCEPT !.defers = <<>>]>>
            /\ UNCHANGED <<stack, ip>>
       ELSE /\ stack' = PopFrame(stack, frames, Cur, val)
            /\ frames' = SubSeq(frames, 1, Len(frames) - 1)
            /\ ip' = Cur.ret_ip
            /\ UNCHANGED <<vmstate, host>>
    /\ UNCHANGED <<chunk, globals, conts, err_frame, captured, count>>
    /\ UNCHANGED <<dvars, dbgvars, libvars>>

\* RET: return, the result is what slot 0 holds.
RET == Fetch /\ Return(Reg(0)) /\ Did("RET", 0, 0)

\* SRET: return the value of R(r).
SRET(r) == Fetch /\ Return(Reg(r)) /\ Did("SRET", r, 0)

\* DFR: push the closure in R(r) on the active frame's defer stack.
DFR(r) ==
    /\ Fetch
    /\ count.dfr < MaxDefers
    /\ Reg(r).tag = "Closure"
    /\ frames' = [frames EXCEPT ![Len(frames)].defers =
                     Append(@, [id |-> count.dfr + 1, fn |-> Reg(r)])]
    /\ ip' = ip + 1
    /\ count' = Bump("dfr")
    /\ UNCHANGED <<chunk, globals, stack, conts, vmstate, host, err_frame,
                   ran, captured>>
    /\ Did("DFR", r, 0)
    /\ UNCHANGED <<dvars, dbgvars, libvars>>

\* Mutation of DFRPOP: the entry pushed first is removed.
DFRPOPOldest ==
    /\ Fetch
    /\ Cur.defers # <<>>
    /\ frames' = [frames EXCEPT ![Len(frames)].defers = Tail(@)]
    /\ ip' = ip + 1
    /\ UNCHANGED <<chunk, globals, stack, conts, vmstate, host, err_frame,
                   ran, captured, count>>
    /\ Did("DFRPOP", 0, 0)
    /\ UNCHANGED <<dvars, dbgvars, libvars>>

\* DFRPOP: remove the most recently pushed defer entry without running it.
DFRPOP ==
    /\ Fetch
    /\ Cur.defers # <<>>
    /\ frames' = [frames EXCEPT ![Len(frames)].defers =
                     SubSeq(@, 1, Len(@) - 1)]
    /\ ip' = ip + 1
    /\ UNCHANGED <<chunk, globals, stack, conts, vmstate, host, err_frame,
                   ran, captured, count>>
    /\ Did("DFRPOP", 0, 0)
    /\ UNCHANGED <<dvars, dbgvars, libvars>>

\* ONERR: register the closure in R(r) as the active frame's handler.
ONERR(r) ==
    /\ Fetch
    /\ Reg(r).tag = "Closure"
    /\ frames' = [frames EXCEPT ![Len(frames)].onerr = Reg(r)]
    /\ ip' = ip + 1
    /\ UNCHANGED <<chunk, globals, stack, conts, vmstate, host, err_frame,
                   ran, captured, count>>
    /\ Did("ONERR", r, 0)
    /\ UNCHANGED <<dvars, dbgvars, libvars>>

\* Mutation of HandlerFrame: the outermost frame with a handler.
HandlerFrameOutermost(fs) ==
    IF \E i \in DOMAIN fs : fs[i].onerr # Undef
    THEN CHOOSE i \in DOMAIN fs :
            /\ fs[i].onerr # Undef
            /\ \A j \in DOMAIN fs : fs[j].onerr # Undef => i <= j
    ELSE 0

\* The frame an error unwind stops at: the innermost frame with a handler,
\* 0 when no active frame has one.
HandlerFrame(fs) ==
    IF \E i \in DOMAIN fs : fs[i].onerr # Undef
    THEN CHOOSE i \in DOMAIN fs :
            /\ fs[i].onerr # Undef
            /\ \A j \in DOMAIN fs : fs[j].onerr # Undef => j <= i
    ELSE 0

\* Mutation of UnwindDefers: outermost frame first.
RECURSIVE UnwindDefersOuterFirst(_, _)
UnwindDefersOuterFirst(fs, lo) ==
    IF Len(fs) < lo \/ fs = <<>>
    THEN <<>>
    ELSE UnwindDefersOuterFirst(SubSeq(fs, 1, Len(fs) - 1), lo)
         \o RunDefers(fs[Len(fs)])

\* The defer entries an error unwind runs when it tears down the frames
\* fs[lo..Len(fs)]: innermost frame first, each frame's entries last
\* pushed first.
RECURSIVE UnwindDefers(_, _)
UnwindDefers(fs, lo) ==
    IF Len(fs) < lo \/ fs = <<>>
    THEN <<>>
    ELSE RunDefers(fs[Len(fs)])
         \o UnwindDefers(SubSeq(fs, 1, Len(fs) - 1), lo)

ClearDefers(fs) == [i \in DOMAIN fs |-> [fs[i] EXCEPT !.defers = <<>>]]

\* ERR: raise an error with tag R(rt) and payload R(rp).  With a handler in
\* frame h the frames h.. are unwound, the handler runs and its result res
\* is the normal return value of frame h.  Without one every frame is
\* unwound, the host receives the error and the failing frame is retained.
ERR(rt, rp, res) ==
    /\ Fetch
    /\ LET h == HandlerFrame(frames)
       IN  IF h # 0
           THEN /\ ran' = ran \o UnwindDefers(frames, h)
                            \o <<Event("handler", 0, frames[h].id,
                                       frames[h].onerr, Reg(rt), Reg(rp),
                                       res)>>
                /\ IF h = 1
                   THEN /\ vmstate' = "returned"
                        /\ host' = [kind |-> "value", tag |-> Undef,
                                    val |-> res]
                        /\ frames' = <<[frames[1] EXCEPT !.defers = <<>>,
                                                         !.onerr = Undef]>>
                        /\ stack' = SubSeq(stack, 1, WindowSize(chunk))
                        /\ UNCHANGED ip
                   ELSE /\ stack' = PopFrame(stack, SubSeq(frames, 1, h),
                                             frames[h], res)
                        /\ frames' = SubSeq(frames, 1, h - 1)
                        /\ ip' = frames[h].ret_ip
                        /\ UNCHANGED <<vmstate, host>>
                /\ UNCHANGED err_frame
           ELSE /\ ran' = ran \o UnwindDefers(frames, 1)
                /\ vmstate' = "error"
                /\ host' = [kind |-> "error", tag |-> Reg(rt),
                            val |-> Reg(rp)]
                /\ err_frame' = <<[id |-> Cur.id, base |-> Cur.base,
                                   ip |-> ip]>>
                /\ frames' = ClearDefers(frames)
                /\ UNCHANGED <<stack, ip>>
    /\ UNCHANGED <<chunk, globals, conts, captured, count>>
    /\ Did("ERR", rt, rp)
    /\ UNCHANGED <<dvars, dbgvars, libvars>>

\* The Continuation object a capture builds: the stack slice from the
\* bottom of the stack to the current top, the defer / handler chain, and
\* the instruction pointer to resume at.
Capture(st, fs, resume) == [stack |-> st, frames |-> fs, ip |-> resume]

\* CCC: capture the current continuation, its handle goes to R(r).
CCC(r) ==
    /\ Fetch
    /\ Len(conts) < MaxConts
    /\ conts' = Append(conts, Capture(stack, frames, ip + 1))
    /\ captured' = Append(captured, [stack |-> stack, ip |-> ip + 1])
    /\ stack' = SetReg(stack, Cur.base, r, ContV(Len(conts) + 1))
    /\ ip' = ip + 1
    /\ UNCHANGED <<chunk, globals, frames, vmstate, host, err_frame, ran,
                   count>>
    /\ Did("CCC", r, 0)
    /\ UNCHANGED <<dvars, dbgvars, libvars>>

\* Mutation of Restore: the live stack is cut or grown to the length of the
\* captured slice, slots that are live keep their value.
RestoreLength(k, st) ==
    [i \in DOMAIN k.stack |-> IF i \in DOMAIN st THEN st[i] ELSE k.stack[i]]

\* The live stack after continuation k is invoked on live stack st: the
\* captured slice replaces whatever was there.
Restore(k, st) == k.stack

\* Mutation of INVOKE: the invocation is routed through the error unwind,
\* the innermost handler of the live chain runs before the stack is
\* replaced.
INVOKEUnwinds(r) ==
    /\ Fetch
    /\ count.invoke < MaxInvokes
    /\ Reg(r).tag = "Continuation"
    /\ stack' = Restore(conts[Reg(r).v], stack)
    /\ frames' = conts[Reg(r).v].frames
    /\ ip' = conts[Reg(r).v].ip
    /\ count' = Bump("invoke")
    /\ ran' = IF HandlerFrame(frames) = 0 THEN ran
              ELSE Append(ran, Event("handler", 0,
                                     frames[HandlerFrame(frames)].id,
                                     frames[HandlerFrame(frames)].onerr,
                                     Undef, Undef, Undef))
    /\ UNCHANGED <<chunk, globals, conts, vmstate, host, err_frame, captured>>
    /\ Did("INVOKE", r, 0)
    /\ UNCHANGED <<dvars, dbgvars, libvars>>

\* Invoking the continuation held in R(r): the captured slice and chain
\* replace the live ones, execution resumes at the saved instruction
\* pointer.  No defer entry and no handler runs.
INVOKE(r) ==
    /\ Fetch
    /\ count.invoke < MaxInvokes
    /\ Reg(r).tag = "Continuation"
    /\ stack' = Restore(conts[Reg(r).v], stack)
    /\ frames' = conts[Reg(r).v].frames
    /\ ip' = conts[Reg(r).v].ip
    /\ count' = Bump("invoke")
    /\ UNCHANGED <<chunk, globals, conts, vmstate, host, err_frame, ran,
                   captured>>
    /\ Did("INVOKE", r, 0)
    /\ UNCHANGED <<dvars, dbgvars, libvars>>

(***************************************************************************)
(* PART III - the debugger: dump_regs, dump_stack and the command loop of  *)
(* debug(vm).  A command is one action: the line read, what it prints      *)
(* (`out`, row by row) and its effect on the VM.  The reader that parses   *)
(* the line works on the VM's heap and interner, which are not modelled    *)
(* beyond the strings debug itself interns.                                *)
(***************************************************************************)

\* Vm::get_registers(start, end): the stack slots start .. end - 1.
get_registers(st, start, end) == SubSeq(st, start + 1, end)

\* The loop of dump_regs over regs.iter().enumerate() from index i on;
\* reg_names is the Option of the iterator over dbg_args: <<>> for None,
\* <<names left>> for Some.
RECURSIVE DumpRegsLoop(_, _, _, _)
DumpRegsLoop(regs, i, reg_names, rows) ==
    IF i >= Len(regs) THEN rows
    ELSE LET named == i # 0 /\ reg_names # <<>> /\ reg_names[1] # <<>>
             aname == IF i = 0 THEN "params/result"
                      ELSE IF named THEN Head(reg_names[1])
                      ELSE "[SCRATCH]"
         IN  DumpRegsLoop(regs, i + 1,
                          IF named THEN <<Tail(reg_names[1])>> ELSE reg_names,
                          Append(rows, [i |-> i, name |-> aname,
                                        val |-> regs[i + 1]]))

\* Mutation of dump_regs: end = stack_top + input_regs + extra_regs.
dump_regs_short(st, stack_top, ch) ==
    DumpRegsLoop(get_registers(st, stack_top,
                               stack_top + ch.input_regs + ch.extra_regs),
                 0, ch.dbg_args, <<>>)

\* dump_regs(vm, frame): the rows printed for the frame's registers.
dump_regs(st, stack_top, ch) ==
    DumpRegsLoop(get_registers(st, stack_top,
                               stack_top + ch.input_regs + ch.extra_regs + 1),
                 0, ch.dbg_args, <<>>)

\* The second loop of dump_stack from slot i on: a CallFrame slot is
\* labelled RESULT and switches to the names of the next chunk.
RECURSIVE DumpStackLoop(_, _, _, _, _)
DumpStackLoop(st, i, chunks, reg_names, rows) ==
    IF i >= Len(st) THEN rows
    ELSE LET r == st[i + 1]
             frame == r.tag = "CallFrame"
             named == ~frame /\ reg_names # <<>> /\ reg_names[1] # <<>>
             reg_name == IF frame THEN "RESULT"
                         ELSE IF named THEN Head(reg_names[1])
                         ELSE "[SCRATCH]"
         IN  DumpStackLoop(st, i + 1,
                           IF frame /\ chunks # <<>> THEN Tail(chunks)
                           ELSE chunks,
                           IF frame
                           THEN (IF chunks # <<>> THEN Head(chunks).dbg_args
                                 ELSE <<>>)
                           ELSE IF named THEN <<Tail(reg_names[1])>>
                           ELSE reg_names,
                           Append(rows, [i |-> i, name |-> reg_name,
                                         val |-> r]))

\* dump_stack(vm): the chunks of the CallFrame slots, then the error
\* frame's chunk, then one row per stack slot.
dump_stack(st, ef, ch) ==
    DumpStackLoop(st, 0,
                  [k \in 1..CallDepth(st) |-> ch]
                  \o (IF ef # <<>> THEN <<ch>> ELSE <<>>),
                  <<>>, <<>>)

\* Vm::get_call_stack(): the frames the calls in progress saved, innermost
\* first: frame id, window base and the instruction pointer to resume at.
get_call_stack ==
    [k \in 1..(Len(frames) - 1) |->
        [id         |-> frames[Len(frames) - k].id,
         stack_top  |-> frames[Len(frames) - k].base,
         current_ip |-> frames[Len(frames) - k + 1].ret_ip]]

\* Vm::dump_globals(): one row per global.
dump_globals == [g \in DOMAIN globals |-> [i |-> g - 1, val |-> globals[g]]]

\* A line of text printed by a command.
Msg(m) == <<[msg |-> m]>>

NoParam == [kind |-> "none", v |-> 0]

\* The parameters typed after a keyword: none, an integer, something else.
Params ==
    {NoParam, [kind |-> "other", v |-> 0]}
    \cup {[kind |-> "int", v |-> n] : n \in {-2, 0, 1, 2, 3}}

\* stk_idx.abs() as usize
Abs(n) == IF n < 0 THEN 0 - n ELSE n

\* Mutation of FrameAt: the enumeration index is compared without the + 1.
FrameAtZeroBased(stk_idx) ==
    IF stk_idx + 1 \in DOMAIN get_call_stack
    THEN <<get_call_stack[stk_idx + 1]>>
    ELSE <<>>

\* The frame `for (i, frame) in vm.get_call_stack().enumerate()` stops at:
\* <<frame>> when i + 1 == stk_idx for some frame, <<>> otherwise.
FrameAt(stk_idx) ==
    IF stk_idx \in DOMAIN get_call_stack THEN <<get_call_stack[stk_idx]>>
    ELSE <<>>

\* A line was read and parsed into a keyword and its parameter.
Read(name, param) ==
    /\ dbg = "on"
    /\ dstate # "running"
    /\ cmd' = [name |-> name, param |-> param]

\* The host calls debug(vm): the six keywords are interned.
DebugEnter ==
    /\ dbg = "off"
    /\ vmstate \in {"error", "returned"}
    /\ dbg' = "on"
    /\ interned' = interned \cup {"abort", "globals", "dasm", "regs",
                                  "regs-raw", "stack"}
    /\ out' = <<>>
    /\ UNCHANGED cmd
    /\ UNCHANGED <<dvars, vmvars, libvars>>

\* :abort returns from debug.
CmdAbort ==
    /\ Read("abort", NoParam)
    /\ dbg' = "off"
    /\ out' = <<>>
    /\ UNCHANGED interned
    /\ UNCHANGED <<dvars, vmvars, libvars>>

\* :globals
CmdGlobals ==
    /\ Read("globals", NoParam)
    /\ out' = dump_globals
    /\ UNCHANGED <<dbg, interned>>
    /\ UNCHANGED <<dvars, vmvars, libvars>>

\* :dasm [n]: disassemble the chunk of the n-th frame of the call stack,
\* or of the error frame; the instruction loop of disassemble_chunk then
\* runs on the chunk's code.
CmdDasm(param) ==
    /\ Read("dasm", param)
    /\ LET start == \/ param.kind = "int" /\ FrameAt(Abs(param.v)) # <<>>
                    \/ param.kind = "none" /\ err_frame # <<>>
       IN  /\ IF start
              THEN /\ op' = IterNext(code, 0)
                   /\ pos' = IterAdvance(code, 0)
                   /\ wide' = FALSE
                   /\ listing' = <<>>
                   /\ last_line' = 0
                   /\ dstate' = "running"
              ELSE UNCHANGED <<op, pos, wide, listing, last_line, dstate>>
           /\ out' = IF param.kind = "other" THEN Msg("Param not an int.")
                     ELSE IF param.kind = "none" /\ ~start
                     THEN Msg("Nothing to disassemble.")
                     ELSE <<>>
    /\ UNCHANGED <<code, lines>>
    /\ UNCHANGED <<dbg, interned>>
    /\ UNCHANGED <<vmvars, libvars>>

\* Mutation of CmdRegs: the error frame is taken out of the VM when it is
\* dumped.
CmdRegsTaking(param) ==
    /\ Read("regs", param)
    /\ out' = IF param.kind = "int"
              THEN (IF FrameAt(Abs(param.v)) # <<>>
                    THEN dump_regs(stack, FrameAt(Abs(param.v))[1].stack_top,
                                   chunk)
                    ELSE <<>>)
              ELSE IF param.kind = "other" THEN Msg("Param not an int.")
              ELSE IF err_frame # <<>>
              THEN dump_regs(stack, err_frame[1].base, chunk)
              ELSE Msg("At top level.")
    /\ err_frame' = IF param.kind = "none" THEN <<>> ELSE err_frame
    /\ UNCHANGED <<dbg, interned>>
    /\ UNCHANGED <<dvars, libvars>>
    /\ UNCHANGED <<chunk, globals, stack, frames, ip, conts, vmstate, host,
                   ran, captured, count, last>>

\* :regs [n]: dump the registers of the n-th frame of the call stack, or
\* of the error frame.
CmdRegs(param) ==
    /\ Read("regs", param)
    /\ out' = IF param.kind = "int"
              THEN (IF FrameAt(Abs(param.v)) # <<>>
                    THEN dump_regs(stack, FrameAt(Abs(param.v))[1].stack_top,
                                   chunk)
                    ELSE <<>>)
              ELSE IF param.kind = "other" THEN Msg("Param not an int.")
              ELSE IF err_frame # <<>>
              THEN dump_regs(stack, err_frame[1].base, chunk)
              ELSE Msg("At top level.")
    /\ UNCHANGED <<dbg, interned>>
    /\ UNCHANGED <<dvars, vmvars, libvars>>

\* Mutation of CmdRegsRaw: the top slot is popped off the stack it dumps.
CmdRegsRawPopping ==
    /\ Read("regs-raw", NoParam)
    /\ out' = dump_stack(stack, err_frame, chunk)
    /\ stack' = SubSeq(stack, 1, Len(stack) - 1)
    /\ UNCHANGED <<dbg, interned>>
    /\ UNCHANGED <<dvars, libvars>>
    /\ UNCHANGED <<chunk, globals, frames, ip, conts, vmstate, host,
                   err_frame, ran, captured, count, last>>

\* :regs-raw
CmdRegsRaw ==
    /\ Read("regs-raw", NoParam)
    /\ out' = dump_stack(stack, err_frame, chunk)
    /\ UNCHANGED <<dbg, interned>>
    /\ UNCHANGED <<dvars, vmvars, libvars>>

\* frame.chunk.offset_to_line(ip).unwrap_or(0)
LineOr0(i) == IF offset_to_line(i) # <<>> THEN offset_to_line(i)[1] ELSE 0

\* :stack: the error frame when there is one, then the call stack.
CmdStack ==
    /\ Read("stack", NoParam)
    /\ out' = (IF err_frame # <<>>
               THEN <<[frame |-> "ERROR Frame", id |-> err_frame[1].id,
                       line |-> LineOr0(err_frame[1].ip),
                       ip |-> err_frame[1].ip]>>
               ELSE <<>>)
              \o [k \in DOMAIN get_call_stack |->
                    [frame |-> "ID", id |-> get_call_stack[k].id,
                     line |-> LineOr0(get_call_stack[k].current_ip),
                     ip |-> get_call_stack[k].current_ip]]
    /\ UNCHANGED <<dbg, interned>>
    /\ UNCHANGED <<dvars, vmvars, libvars>>

\* Any other form (`_ => {}`) prints nothing.
CmdOther ==
    /\ Read("other", NoParam)
    /\ out' = <<>>
    /\ UNCHANGED <<dbg, interned>>
    /\ UNCHANGED <<dvars, vmvars, libvars>>

\* The line does not parse.
CmdReaderError ==
    /\ Read("unreadable", NoParam)
    /\ out' = Msg("Reader error")
    /\ UNCHANGED <<dbg, interned>>
    /\ UNCHANGED <<dvars, vmvars, libvars>>

\* The host clears the error frame after the debugger returned.
ClearErrFrame ==
    /\ dbg = "off"
    /\ err_frame # <<>>
    /\ err_frame' = <<>>
    /\ UNCHANGED <<chunk, globals, stack, frames, ip, conts, vmstate, host,
                   ran, captured, count, last>>
    /\ UNCHANGED <<dvars, dbgvars, libvars>>

(***************************************************************************)
(* PART IV - the binding builtins of the interpreter (builtins_bind.rs):   *)
(* lex, set!, var, undef, dyn and def?.  A builtin that evaluates a body   *)
(* (dyn, lex) is two actions, its call up to the evaluation of the body    *)
(* and its return after it; the forms of the body are the actions taken    *)
(* in between, so a behaviour is the evaluation of some program.  An       *)
(* error propagates outward (status "err") through the forms in `ctl`      *)
(* until get-error catches it or it reaches top level.  The value form of  *)
(* set! and var is a literal or a form whose evaluation fails.             *)
(***************************************************************************)

NilE == [tag |-> "Nil", v |-> 0]
TrueE == [tag |-> "True", v |-> 0]

Syms == {"x", "y"}        \* the symbols programs bind
Vals == {IntV(1), IntV(2)}  \* the values they bind them to

\* The forms given as a value: a literal, or a form whose evaluation
\* returns an error.
ValExprs == {[kind |-> "lit", v |-> v] : v \in Vals}
            \cup {[kind |-> "err", v |-> NilE]}

\* HashMap::insert and HashMap::remove on a map held as a function.
Insert(m, k, v) == [x \in DOMAIN m \cup {k} |-> IF x = k THEN v ELSE m[x]]
Remove(m, k) == [x \in DOMAIN m \ {k} |-> m[x]]

\* A lexical scope: its bindings and the scope it is nested in.
Scope(data, outer) == [data |-> data, outer |-> outer]

\* build_new_scope(outer): an empty scope inside `outer`.
build_new_scope(outer) == Scope(<<>>, outer)

\* get_current_scope: the innermost lexical scope, the namespace (0) when
\* the scope stack is empty.
get_current_scope == Len(scopes)

\* The bindings of scope i of the stack `sc`, of the namespace `ns` for 0.
DataOf(sc, ns, i) == IF i = 0 THEN ns ELSE sc[i].data

\* get_symbols_scope(environment, key): the first scope that binds key,
\* from scope i outward along the outer links; -1 for None.
RECURSIVE get_symbols_scope(_, _)
get_symbols_scope(i, key) ==
    IF key \in DOMAIN DataOf(scopes, namespace, i) THEN i
    ELSE IF i = 0 THEN -1
    ELSE get_symbols_scope(scopes[i].outer, key)

\* get_expression(environment, key): the dynamic binding when there is
\* one, else the binding found from the current scope outward; <<>> for
\* None.
get_expression(key) ==
    IF key \in DOMAIN dynamic_scope THEN <<dynamic_scope[key]>>
    ELSE IF get_symbols_scope(get_current_scope, key) >= 0
    THEN <<DataOf(scopes, namespace,
                  get_symbols_scope(get_current_scope, key))[key]>>
    ELSE <<>>

\* is_expression(environment, name)
is_expression(key) == get_expression(key) # <<>>

\* The history of the builtin being called.
Called(name, key) ==
    elast' = [op |-> name, key |-> key, n |-> elast.n + 1]

MaxForms == 3             \* forms a program evaluates
MaxCtl == 2               \* dyn, lex and get-error forms nested

\* The history of the builtin returning from the evaluation of its body.
Returned(name) ==
    elast' = [op |-> name, key |-> ctl[Len(ctl)].key, n |-> elast.n]

\* A form is evaluated: no error is propagating.
Ready == status = "ok" /\ elast.n < MaxForms

Ok(v) == [ok |-> TRUE, val |-> v]
Err(m) == [ok |-> FALSE, val |-> [tag |-> "Error", v |-> m]]

\* A form of the stack `ctl`: the builtin, its key and old_val (dyn), and
\* what the dynamic scope, the depth of the scope stack and the symbols
\* bound lexically were when it was called.
Form(name, key, old) ==
    [form |-> name, key |-> key, old |-> old,
     dyn0 |-> dynamic_scope, depth0 |-> Len(scopes),
     bound0 |-> {k \in Syms : get_symbols_scope(get_current_scope, k) >= 0}]

\* A builtin returns Err without having changed anything.
Fails(name, key, m) ==
    /\ status' = "err"
    /\ ret' = Err(m)
    /\ Called(name, key)
    /\ UNCHANGED <<dynamic_scope, scopes, namespace, ctl>>

\* builtin_dyn up to `let res = eval(environment, exp)`.  kexpr tells
\* whether the key form evaluates to a symbol ("sym"), to something else
\* ("other") or fails ("err"); nargs is the number of forms given.
DynCall(kexpr, key, vexpr, nargs) ==
    /\ Ready
    /\ IF kexpr = "err"
       THEN Fails("dyn", key, "key")
       ELSE IF nargs < 2
       THEN Fails("dyn", key, "dyn requires a key and value")
       ELSE IF kexpr # "sym"
       THEN Fails("dyn", key, "first form must evaluate to a symbol")
       ELSE IF vexpr.kind = "err"
       THEN Fails("dyn", key, "value")
       ELSE IF nargs = 3
       THEN /\ Len(ctl) < MaxCtl
            /\ dynamic_scope' = Insert(Remove(dynamic_scope, key), key,
                                       vexpr.v)
            /\ ctl' = Append(ctl,
                             Form("dyn", key,
                                  IF key \in DOMAIN dynamic_scope
                                  THEN <<dynamic_scope[key]>> ELSE <<>>))
            /\ Called("dyn", key)
            /\ UNCHANGED <<scopes, namespace, status, ret>>
       ELSE /\ dynamic_scope' = Remove(dynamic_scope, key)
            /\ status' = "err"
            /\ ret' = Err("dyn requires three expressions")
            /\ Called("dyn", key)
            /\ UNCHANGED <<scopes, namespace, ctl>>
    /\ UNCHANGED <<dvars, vmvars, dbgvars, nonenv>>

\* Mutation of DynReturn: the key is removed whatever old_val holds.
DynReturnRemoving ==
    /\ ctl # <<>>
    /\ ctl[Len(ctl)].form = "dyn"
    /\ dynamic_scope' = Remove(dynamic_scope, ctl[Len(ctl)].key)
    /\ ctl' = SubSeq(ctl, 1, Len(ctl) - 1)
    /\ Returned("dyn-exit")
    /\ UNCHANGED <<scopes, namespace, status, ret>>
    /\ UNCHANGED <<dvars, vmvars, dbgvars, nonenv>>

\* builtin_dyn after eval returned res, a value or an error: old_val is
\* put back, or the key removed, and res is returned.
DynReturn ==
    /\ ctl # <<>>
    /\ ctl[Len(ctl)].form = "dyn"
    /\ dynamic_scope' =
          IF ctl[Len(ctl)].old # <<>>
          THEN Insert(dynamic_scope, ctl[Len(ctl)].key, ctl[Len(ctl)].old[1])
          ELSE Remove(dynamic_scope, ctl[Len(ctl)].key)
    /\ ctl' = SubSeq(ctl, 1, Len(ctl) - 1)
    /\ Returned("dyn-exit")
    /\ UNCHANGED <<scopes, namespace, status, ret>>
    /\ UNCHANGED <<dvars, vmvars, dbgvars, nonenv>>

\* builtin_lex up to the evaluation of its forms: a new scope inside the
\* current one is pushed.
LexCall ==
    /\ Ready
    /\ Len(ctl) < MaxCtl
    /\ scopes' = Append(scopes, build_new_scope(get_current_scope))
    /\ ctl' = Append(ctl, Form("lex", "", <<>>))
    /\ Called("lex", "")
    /\ UNCHANGED <<dynamic_scope, namespace, status, ret>>
    /\ UNCHANGED <<dvars, vmvars, dbgvars, nonenv>>

\* Mutation of LexReturn: the scope is left on the stack when an error
\* propagates.
LexReturnLeaking ==
    /\ ctl # <<>>
    /\ ctl[Len(ctl)].form = "lex"
    /\ scopes' = IF status = "err" THEN scopes
                 ELSE SubSeq(scopes, 1, Len(scopes) - 1)
    /\ ctl' = SubSeq(ctl, 1, Len(ctl) - 1)
    /\ Returned("lex-exit")
    /\ UNCHANGED <<dynamic_scope, namespace, status, ret>>
    /\ UNCHANGED <<dvars, vmvars, dbgvars, nonenv>>

\* builtin_lex after its forms: environment.scopes.pop(), in the map_err
\* closures when a form failed and before Ok(..) when none did.
LexReturn ==
    /\ ctl # <<>>
    /\ ctl[Len(ctl)].form = "lex"
    /\ scopes' = SubSeq(scopes, 1, Len(scopes) - 1)
    /\ ctl' = SubSeq(ctl, 1, Len(ctl) - 1)
    /\ Returned("lex-exit")
    /\ UNCHANGED <<dynamic_scope, namespace, status, ret>>
    /\ UNCHANGED <<dvars, vmvars, dbgvars, nonenv>>

\* Mutation of SetScope: the current scope, whatever binds the key.
SetScopeCurrent(key) == get_current_scope

\* The scope set! writes to when the key has no dynamic binding.
SetScope(key) == get_symbols_scope(get_current_scope, key)

\* The scope stack and the namespace with key bound to v in scope i.
BindIn(i, key, v) ==
    [sc |-> IF i = 0 THEN scopes
            ELSE [scopes EXCEPT ![i].data = Insert(@, key, v)],
     ns |-> IF i = 0 THEN Insert(namespace, key, v) ELSE namespace]

\* builtin_set.  wellformed = FALSE stands for the errors of
\* proc_set_vars (no symbol, wrong number of forms).
Set(key, vexpr, wellformed) ==
    /\ Ready
    /\ IF ~wellformed
       THEN Fails("set!", key, "bindings requires a key and value")
       ELSE IF key \in DOMAIN dynamic_scope
       THEN IF vexpr.kind = "err" THEN Fails("set!", key, "value")
            ELSE /\ dynamic_scope' = Insert(dynamic_scope, key, vexpr.v)
                 /\ ret' = Ok(vexpr.v)
                 /\ Called("set!", key)
                 /\ UNCHANGED <<scopes, namespace, ctl, status>>
       ELSE IF SetScope(key) >= 0
       THEN IF vexpr.kind = "err" THEN Fails("set!", key, "value")
            ELSE /\ scopes' = BindIn(SetScope(key), key, vexpr.v).sc
                 /\ namespace' = BindIn(SetScope(key), key, vexpr.v).ns
                 /\ ret' = Ok(vexpr.v)
                 /\ Called("set!", key)
                 /\ UNCHANGED <<dynamic_scope, ctl, status>>
       ELSE Fails("set!", key, "set's first form must be an existing symbol")
    /\ UNCHANGED <<dvars, vmvars, dbgvars, nonenv>>

\* Mutation of VarExists: never.
VarExistsNever(key) == FALSE

\* The test of builtin_var: scopes.last() binds the key.
VarExists(key) == key \in DOMAIN scopes[Len(scopes)].data

\* builtin_var
Var(key, vexpr, wellformed) ==
    /\ Ready
    /\ IF ~wellformed
       THEN Fails("var", key, "bindings requires a key and value")
       ELSE IF scopes # <<>>
       THEN IF VarExists(key)
            THEN Fails("var", key, "already exists in local scope")
            ELSE IF vexpr.kind = "err" THEN Fails("var", key, "value")
            ELSE /\ scopes' = [scopes EXCEPT
                                  ![Len(scopes)].data = Insert(@, key, vexpr.v)]
                 /\ ret' = Ok(vexpr.v)
                 /\ Called("var", key)
                 /\ UNCHANGED <<dynamic_scope, namespace, ctl, status>>
       ELSE Fails("var", key, "can only be used in a local lexical scope")
    /\ UNCHANGED <<dvars, vmvars, dbgvars, nonenv>>

\* Mutation of remove_expression_current: the first scope that binds key.
remove_expression_any(key) ==
    IF get_symbols_scope(get_current_scope, key) >= 0
    THEN [found |-> TRUE,
          exp |-> DataOf(scopes, namespace,
                         get_symbols_scope(get_current_scope, key))[key],
          scope |-> get_symbols_scope(get_current_scope, key)]
    ELSE [found |-> FALSE, exp |-> NilE, scope |-> 0]

\* remove_expression_current(environment, key): what is removed from the
\* current scope, and the scope it is removed from.
remove_expression_current(key) ==
    IF key \in DOMAIN DataOf(scopes, namespace, get_current_scope)
    THEN [found |-> TRUE,
          exp |-> DataOf(scopes, namespace, get_current_scope)[key],
          scope |-> get_current_scope]
    ELSE [found |-> FALSE, exp |-> NilE, scope |-> 0]

\* builtin_undef.  wellformed = FALSE: not one form, or not a symbol.
UndefSym(key, wellformed) ==
    /\ Ready
    /\ IF ~wellformed
       THEN Fails("undef", "", "undef: can only have one expression")
       ELSE LET r == remove_expression_current(key)
            IN  IF r.found
                THEN /\ scopes' = IF r.scope = 0 THEN scopes
                                  ELSE [scopes EXCEPT
                                           ![r.scope].data = Remove(@, key)]
                     /\ namespace' = IF r.scope = 0
                                     THEN Remove(namespace, key)
                                     ELSE namespace
                     /\ ret' = Ok(r.exp)
                     /\ Called("undef", key)
                     /\ UNCHANGED <<dynamic_scope, ctl, status>>
                ELSE Fails("undef", key, "not defined in current scope")
    /\ UNCHANGED <<dvars, vmvars, dbgvars, nonenv>>

\* builtin_is_def on a symbol.
IsDef(key) ==
    /\ Ready
    /\ ret' = Ok(IF is_expression(key) THEN TrueE ELSE NilE)
    /\ Called("def?", key)
    /\ UNCHANGED <<dynamic_scope, scopes, namespace, ctl, status>>
    /\ UNCHANGED <<dvars, vmvars, dbgvars, nonenv>>

\* Some form of a body fails.
Raise ==
    /\ Ready
    /\ Fails("raise", "", "error")
    /\ UNCHANGED <<dvars, vmvars, dbgvars, nonenv>>

\* (get-error form ...) starts evaluating its forms.
GetErrorCall ==
    /\ Ready
    /\ Len(ctl) < MaxCtl
    /\ ctl' = Append(ctl, Form("get-error", "", <<>>))
    /\ Called("get-error", "")
    /\ UNCHANGED <<dynamic_scope, scopes, namespace, status, ret>>
    /\ UNCHANGED <<dvars, vmvars, dbgvars, nonenv>>

\* get-error returns: an error of its forms is caught and returned as a
\* value.
GetErrorReturn ==
    /\ ctl # <<>>
    /\ ctl[Len(ctl)].form = "get-error"
    /\ ctl' = SubSeq(ctl, 1, Len(ctl) - 1)
    /\ status' = "ok"
    /\ Returned("get-error-exit")
    /\ UNCHANGED <<dynamic_scope, scopes, namespace, ret>>
    /\ UNCHANGED <<dvars, vmvars, dbgvars, nonenv>>

\* An error reaches top level and is reported; the next form is read.
TopLevelError ==
    /\ ctl = <<>>
    /\ status = "err"
    /\ status' = "ok"
    /\ UNCHANGED <<dynamic_scope, scopes, namespace, ctl, ret, elast>>
    /\ UNCHANGED <<dvars, vmvars, dbgvars, nonenv>>

\* The interpreter with nothing bound; the state of Part IV while the
\* other parts run.
EnvIdle ==
    /\ dynamic_scope = <<>>
    /\ scopes = <<>>
    /\ namespace = <<>>
    /\ ctl = <<>>
    /\ status = "ok"
    /\ ret = Ok(NilE)
    /\ elast = [op |-> "none", key |-> "", n |-> 0]

(***************************************************************************)
(* PART V - the reader (reader.rs).  A text is a sequence of code points.  *)
(* An expression is held as the sequence of its tokens, a list between     *)
(* the tokens ( and ), a vector between #( and ); a token is a pair of     *)
(* its kind and its characters.  No *read-table* is bound, so no reader    *)
(* macro is called.                                                        *)
(***************************************************************************)

\* The code point of a character; the quote and back-quote characters are
\* written "apostrophe" and "backtick".
Ord(c) ==
    CASE c = "\t" -> 9   [] c = "\n" -> 10  [] c = "\r" -> 13
      [] c = " " -> 32   [] c = "!" -> 33   [] c = "\"" -> 34
      [] c = "#" -> 35   [] c = "apostrophe" -> 39   [] c = "(" -> 40
      [] c = ")" -> 41   [] c = "+" -> 43   [] c = "," -> 44
      [] c = "-" -> 45   [] c = "." -> 46   [] c = "/" -> 47
      [] c = "0" -> 48   [] c = "1" -> 49   [] c = "2" -> 50
      [] c = "3" -> 51   [] c = "4" -> 52   [] c = "7" -> 55
      [] c = "8" -> 56   [] c = "9" -> 57   [] c = ";" -> 59
      [] c = "<" -> 60   [] c = "@" -> 64   [] c = "A" -> 65
      [] c = "F" -> 70   [] c = "\\" -> 92  [] c = "_" -> 95
      [] c = "backtick" -> 96   [] c = "a" -> 97   [] c = "b" -> 98
      [] c = "c" -> 99   [] c = "d" -> 100  [] c = "e" -> 101
      [] c = "f" -> 102  [] c = "i" -> 105  [] c = "k" -> 107
      [] c = "l" -> 108  [] c = "n" -> 110  [] c = "o" -> 111
      [] c = "q" -> 113  [] c = "r" -> 114  [] c = "t" -> 116
      [] c = "u" -> 117  [] c = "x" -> 120
      [] c = "z" -> 122  [] c = "{" -> 123  [] c = "|" -> 124
      [] c = "}" -> 125

\* The text written as a sequence of characters.
Str(s) == [i \in 1..Len(s) |-> Ord(s[i])]

is_whitespace(ch) == ch \in {Ord(" "), Ord("\t"), Ord("\n")}

is_digit(ch) == ch \in Ord("0")..Ord("9")

\* char_to_hex_num: the value of a hex digit, -1 for the ReadError.
char_to_hex_num(ch) ==
    IF ch \in Ord("0")..Ord("9") THEN ch - Ord("0")
    ELSE IF ch \in Ord("a")..Ord("f") THEN ch - Ord("a") + 10
    ELSE IF ch \in Ord("A")..Ord("F") THEN ch - Ord("A") + 10
    ELSE -1

\* What the functions reading characters return: Ok with the characters
\* left and a value, or a ReadError.
Got(chars, val) == [ok |-> TRUE, chars |-> chars, val |-> val, err |-> ""]
Bad(reason) == [ok |-> FALSE, chars |-> <<>>, val |-> <<>>, err |-> reason]

\* escape_to_char: two hex digits, at most 0x7f.
escape_to_char(chars) ==
    IF Len(chars) < 2
    THEN Bad("Invalid hex ascii code, expected two digits.")
    ELSE IF char_to_hex_num(chars[1]) < 0 \/ char_to_hex_num(chars[2]) < 0
    THEN Bad("Invalid hex digit")
    ELSE IF char_to_hex_num(chars[1]) * 16 + char_to_hex_num(chars[2]) > 127
    THEN Bad("Invalid hex ascii code, must be less then \\x7f.")
    ELSE Got(SubSeq(chars, 3, Len(chars)),
             <<char_to_hex_num(chars[1]) * 16 + char_to_hex_num(chars[2])>>)

MaxScalar == 1114111      \* 0x10ffff, the largest Unicode scalar value

\* std::char::from_u32 in finish: not a surrogate, not beyond 0x10ffff.
IsScalar(u) == u <= MaxScalar /\ ~(u \in 55296..57343)

\* finish(char_u32)
Finish(chars, u) ==
    IF IsScalar(u) THEN Got(chars, <<u>>) ELSE Bad("Invalid unicode scalar")

\* (char_u32 << 4) | nib.  A value beyond 0x10ffff stays beyond it with
\* every further digit, and is kept as it is.
ShiftIn(u, nib) == IF u > MaxScalar THEN u ELSE u * 16 + nib

\* The loop of read_utf_scalar.
RECURSIVE UtfLoop(_, _, _, _, _)
UtfLoop(chars, first, has_bracket, u, nibbles) ==
    IF chars = <<>>
    THEN IF has_bracket THEN Bad("Invalid unicode scalar, failed to parse.")
         ELSE Finish(chars, u)
    ELSE IF Head(chars) = Ord("\n")
    THEN IF has_bracket
         THEN Bad("Invalid unicode scalar, unexpected newline.")
         ELSE Finish(Tail(chars), u)
    ELSE IF first /\ Head(chars) = Ord("{")
    THEN UtfLoop(Tail(chars), FALSE, TRUE, u, nibbles)
    ELSE IF has_bracket /\ Head(chars) = Ord("}")
    THEN Finish(Tail(chars), u)
    ELSE IF nibbles >= 8
    THEN Bad("Invalid unicode scalar, too many bytes (4 max).")
    ELSE IF char_to_hex_num(Head(chars)) < 0
    THEN Bad("Invalid hex digit")
    ELSE IF /\ Tail(chars) # <<>>
            /\ ~has_bracket
            /\ is_whitespace(Head(Tail(chars)))
    THEN Finish(Tail(chars), ShiftIn(u, char_to_hex_num(Head(chars))))
    ELSE UtfLoop(Tail(chars), FALSE, has_bracket,
                 ShiftIn(u, char_to_hex_num(Head(chars))), nibbles + 1)

read_utf_scalar(chars) == UtfLoop(chars, TRUE, FALSE, 0, 0)

\* A token: its kind and its characters.
Tok(kind, chars) == <<kind, chars>>
NilExp == <<Tok("nil", <<>>)>>
TrueExp == <<Tok("True", <<>>)>>
SymbolExp(chars) == <<Tok("Symbol", chars)>>
StringExp(chars) == <<Tok("String", chars)>>

RECURSIVE StringLoop(_, _, _)

\* The escape \x or \u has been read as r: its character is pushed, or
\* its ReadError returned.
Escaped(r, symbol, ch) ==
    IF r.ok THEN StringLoop(r.chars, symbol \o r.val, ch) ELSE r

\* One turn of the loop of read_string on the character ch, rest being
\* the characters after it.
StringTurn(ch, rest, symbol, last_ch) ==
    IF last_ch = Ord("\\")
    THEN IF ch = Ord("n")
         THEN StringLoop(rest, Append(symbol, Ord("\n")), ch)
         ELSE IF ch = Ord("r")
         THEN StringLoop(rest, Append(symbol, Ord("\r")), ch)
         ELSE IF ch = Ord("t")
         THEN StringLoop(rest, Append(symbol, Ord("\t")), ch)
         ELSE IF ch = Ord("\"")
         THEN StringLoop(rest, Append(symbol, Ord("\"")), ch)
         ELSE IF ch = Ord("x")
         THEN Escaped(escape_to_char(rest), symbol, ch)
         ELSE IF ch = Ord("\\")
         THEN StringLoop(rest, Append(symbol, Ord("\\")), Ord(" "))
         ELSE IF ch = Ord("u")
         THEN Escaped(read_utf_scalar(rest), symbol, ch)
         ELSE StringLoop(rest, symbol \o <<Ord("\\"), ch>>, ch)
    ELSE IF ch = Ord("\"") THEN Got(rest, StringExp(symbol))
    ELSE IF ch # Ord("\\")
    THEN StringLoop(rest, Append(symbol, ch), ch)
    ELSE StringLoop(rest, symbol, ch)

\* The loop of read_string: symbol is the string read so far, last_ch the
\* character before this one (a space after an escaped backslash).
StringLoop(chars, symbol, last_ch) ==
    IF chars = <<>> THEN Got(chars, StringExp(symbol))
    ELSE StringTurn(Head(chars), Tail(chars), symbol, last_ch)

\* read_string, called after the opening double quote.
read_string(chars) == StringLoop(chars, <<>>, Ord(" "))

\* end_symbol(ch, in_back_quote, reader_state), with no end_ch set.
end_symbol(ch, in_back_quote) ==
    \/ is_whitespace(ch)
    \/ ch \in {Ord("("), Ord(")"), Ord("#"), Ord("\""), Ord("apostrophe"), Ord("backtick")}
    \/ ch = Ord(",") /\ in_back_quote

\* What read_symbol keeps while it reads.
IsNumChar(ch) == is_digit(ch) \/ ch = Ord(".") \/ ch = Ord("_")
Dots(ch) == IF ch = Ord(".") THEN 1 ELSE 0

RECURSIVE SymbolLoop(_, _, _, _, _, _, _)

\* The end of a turn of the loop of read_symbol that pushed no escaped
\* character: the loop ends before a character that ends a symbol, and
\* at the end of the text.  The result holds the buffer in val and
\* whether it may be a number in num.
SymbolTurn(buffer, rest, for_ch, in_back_quote, skip_underscore, is_number, decimals) ==
    IF end_symbol(IF rest # <<>> THEN Head(rest) ELSE Ord(" "), in_back_quote)
    THEN [chars |-> rest, val |-> buffer, num |-> is_number /\ decimals <= 1]
    ELSE SymbolLoop(buffer, rest, for_ch, in_back_quote, skip_underscore,
                    is_number, decimals)

\* The loop of read_symbol: a backslash that is not the last character is
\* dropped and the character after it pushed, whatever it is.
SymbolLoop(buffer, chars, for_ch, in_back_quote, skip_underscore, is_number, decimals) ==
    IF chars = <<>>
    THEN [chars |-> chars, val |-> buffer, num |-> is_number /\ decimals <= 1]
    ELSE IF Head(chars) = Ord("\\") /\ Len(chars) > 1 /\ ~for_ch
    THEN SymbolLoop(Append(buffer, chars[2]), SubSeq(chars, 3, Len(chars)),
                    for_ch, in_back_quote, skip_underscore,
                    is_number /\ IsNumChar(chars[2]),
                    decimals + Dots(chars[2]))
    ELSE IF skip_underscore /\ Head(chars) = Ord("_")
    THEN SymbolTurn(buffer, Tail(chars), for_ch, in_back_quote,
                    skip_underscore, is_number, decimals)
    ELSE SymbolTurn(Append(buffer, Head(chars)), Tail(chars), for_ch,
                    in_back_quote, skip_underscore,
                    is_number /\ IsNumChar(Head(chars)),
                    decimals + Dots(Head(chars)))

\* read_symbol(buffer, chars, reader_state, for_ch, in_back_quote,
\* skip_underscore)
read_symbol(buffer, chars, for_ch, in_back_quote, skip_underscore) ==
    IF chars # <<>> /\ end_symbol(Head(chars), in_back_quote) /\ ~for_ch
    THEN [chars |-> chars, val |-> buffer,
          num |-> Len(buffer) = 1 /\ is_digit(buffer[1])]
    ELSE SymbolLoop(buffer, chars, for_ch, in_back_quote, skip_underscore,
                    \/ buffer = <<>>
                    \/ /\ Len(buffer) = 1
                       /\ \/ is_digit(buffer[1])
                          \/ buffer[1] \in {Ord("+"), Ord("-"), Ord(".")},
                    IF Len(buffer) = 1 /\ buffer[1] = Ord(".") THEN 1 ELSE 0)

\* num_str.retain(|ch| ch != '_')
RECURSIVE NoUnderscores(_)
NoUnderscores(s) ==
    IF s = <<>> THEN <<>>
    ELSE IF Head(s) = Ord("_") THEN NoUnderscores(Tail(s))
    ELSE <<Head(s)>> \o NoUnderscores(Tail(s))

\* What str::parse::<i64> and str::parse::<f64> accept of a text made of
\* a sign, digits and dots: an integer is an optional sign and digits; a
\* float has one dot at most and a digit.
Unsigned(s) ==
    IF s # <<>> /\ Head(s) \in {Ord("+"), Ord("-")} THEN Tail(s) ELSE s
ParsesInt(s) ==
    Unsigned(s) # <<>> /\ \A i \in DOMAIN Unsigned(s) : is_digit(Unsigned(s)[i])
ParsesFloat(s) ==
    /\ \E i \in DOMAIN Unsigned(s) : is_digit(Unsigned(s)[i])
    /\ \A i \in DOMAIN Unsigned(s) :
          is_digit(Unsigned(s)[i]) \/ Unsigned(s)[i] = Ord(".")
    /\ Cardinality({i \in DOMAIN s : s[i] = Ord(".")}) <= 1

\* do_atom(environment, symbol, is_number)
do_atom(symbol, is_number) ==
    IF is_number
    THEN IF ParsesInt(NoUnderscores(symbol))
         THEN <<Tok("Int", NoUnderscores(symbol))>>
         ELSE IF ParsesFloat(NoUnderscores(symbol))
         THEN <<Tok("Float", NoUnderscores(symbol))>>
         ELSE SymbolExp(symbol)
    ELSE IF symbol = <<>> THEN NilExp
    ELSE IF symbol = Str(<<"t">>) THEN TrueExp
    ELSE IF symbol = Str(<<"n", "i", "l">>) THEN NilExp
    ELSE SymbolExp(symbol)

\* A List of the reader's stack.
RList(list_type, vec) == [list_type |-> list_type, vec |-> vec]

\* The tokens of the expressions of vec, one after the other.
RECURSIVE Tokens(_)
Tokens(vec) == IF vec = <<>> THEN <<>> ELSE Head(vec) \o Tokens(Tail(vec))

\* Expression::with_list(vec): a vector.
with_list(vec) == <<Tok("#(", <<>>)>> \o Tokens(vec) \o <<Tok(")", <<>>)>>

\* Expression::cons_from_vec(vec, meta): a list, nil when vec is empty.
cons_from_vec(vec) ==
    IF vec = <<>> THEN NilExp
    ELSE <<Tok("(", <<>>)>> \o Tokens(vec) \o <<Tok(")", <<>>)>>

\* ExpEnum::Pair(e1, e2) as read from (e1 . e2): the list of e1 and the
\* elements of e2 when e2 is a list or nil, a dotted pair otherwise.
PairExp(e1, e2) ==
    IF e2 = NilExp THEN <<Tok("(", <<>>)>> \o e1 \o <<Tok(")", <<>>)>>
    ELSE IF Head(e2)[1] = "("
    THEN <<Tok("(", <<>>)>> \o e1 \o Tail(e2)
    ELSE <<Tok("(", <<>>)>> \o e1 \o <<Tok(".", <<>>)>> \o e2
            \o <<Tok(")", <<>>)>>

\* What the functions working on the stack return.
Stacked(lists) == [ok |-> TRUE, stack |-> lists, err |-> ""]
Unstacked(reason) == [ok |-> FALSE, stack |-> <<>>, err |-> reason]

\* The expression close_list makes of the list v.
Closed(v) ==
    IF v.list_type = "Vector" THEN with_list(v.vec)
    ELSE IF Len(v.vec) = 3 /\ v.vec[2] = SymbolExp(Str(<<".">>))
    THEN PairExp(v.vec[1], v.vec[3])
    ELSE cons_from_vec(v.vec)

\* close_list(stack, exp_meta)
close_list(lists) ==
    IF lists = <<>> THEN Unstacked("Unexpected )")
    ELSE IF Len(lists) = 1 THEN Stacked(lists)
    ELSE Stacked([i \in 1..(Len(lists) - 1) |->
                    IF i < Len(lists) - 1 THEN lists[i]
                    ELSE RList(lists[i].list_type,
                               Append(lists[i].vec, Closed(lists[Len(lists)])))])

\* push_stack(stack, expression, line, column)
push_stack(lists, expression) ==
    IF lists = <<>> THEN Unstacked("Found symbol without containing list")
    ELSE Stacked([lists EXCEPT ![Len(lists)].vec = Append(@, expression)])

\* The whitespace consumed at the head of chars.
RECURSIVE SkipWhitespace(_)
SkipWhitespace(chars) ==
    IF chars # <<>> /\ is_whitespace(Head(chars))
    THEN SkipWhitespace(Tail(chars)) ELSE chars

consume_trailing_whitespace(chars) == SkipWhitespace(chars)

\* consume_line_comment: to the end of the line, or of the text.
RECURSIVE consume_line_comment(_)
consume_line_comment(chars) ==
    IF chars = <<>> THEN chars
    ELSE IF Head(chars) = Ord("\n") THEN Tail(chars)
    ELSE consume_line_comment(Tail(chars))

\* The depth of the block comment after the character ch.
Nesting(depth, last_ch, ch) ==
    depth - (IF last_ch = Ord("|") /\ ch = Ord("#") THEN 1 ELSE 0)
          + (IF last_ch = Ord("#") /\ ch = Ord("|") THEN 1 ELSE 0)

\* The loop of consume_block_comment.
RECURSIVE BlockComment(_, _, _)
BlockComment(chars, depth, last_ch) ==
    IF chars = <<>> THEN chars
    ELSE IF Nesting(depth, last_ch, Head(chars)) = 0 THEN Tail(chars)
    ELSE BlockComment(Tail(chars), Nesting(depth, last_ch, Head(chars)),
                      Head(chars))

consume_block_comment(chars) == BlockComment(chars, 1, Ord(" "))

\* What read_inner returns: Ok((cont, chars)) with the stack it built, or
\* the ReadError.
Inner(cont, chars, lists) ==
    [ok |-> TRUE, cont |-> cont, chars |-> chars, stack |-> lists, err |-> ""]
InnerErr(reason) ==
    [ok |-> FALSE, cont |-> FALSE, chars |-> <<>>, stack |-> <<>>,
     err |-> reason]

\* What an arm of the match of read_inner leaves: the characters, the
\* stack, the level and read_next.
Arm(chars, stacked, level, read_next) ==
    [ok |-> stacked.ok, chars |-> chars, stack |-> stacked.stack,
     level |-> level, read_next |-> read_next, err |-> stacked.err]

\* Mutation of QuoteSymbol: a back-quote is read as back-quote wherever it
\* stands.
QuoteSymbolFlat(ch, in_back_quote) ==
    IF ch = Ord("apostrophe") THEN Str(<<"q", "u", "o", "t", "e">>)
    ELSE Str(<<"b", "a", "c", "k", "-", "q", "u", "o", "t", "e">>)

\* The symbol the arms of ' and ` put at the head of the list.
QuoteSymbol(ch, in_back_quote) ==
    IF ch = Ord("apostrophe") \/ in_back_quote THEN Str(<<"q", "u", "o", "t", "e">>)
    ELSE Str(<<"b", "a", "c", "k", "-", "q", "u", "o", "t", "e">>)

RECURSIVE read_inner(_, _, _)
RECURSIVE ReadLoop(_, _, _, _)

\* The arm of the double quote, s being what read_string returned.
StringArm(s, lists, level) ==
    IF s.ok THEN Arm(s.chars, push_stack(lists, s.val), level, FALSE)
    ELSE Arm(<<>>, Unstacked(s.err), level, FALSE)

\* The arms of ' and `, q being what the inner read_inner returned.
QuoteArm(q, level) ==
    IF q.ok THEN Arm(q.chars, close_list(q.stack), level, FALSE)
    ELSE Arm(<<>>, Unstacked(q.err), level, FALSE)

\* The arm of #, the character after it being consumed.  The arms of #\,
\* #., #o, #x and #b are not modelled: the texts read here hold none of
\* them.
HashArm(peek_ch, rest, lists, level) ==
    IF peek_ch = Ord("|")
    THEN Arm(consume_block_comment(Tail(rest)), Stacked(lists), level, FALSE)
    ELSE IF peek_ch = Ord("<")
    THEN Arm(rest, Unstacked("Found an unreadable token"), level, FALSE)
    ELSE IF peek_ch = Ord("(")
    THEN Arm(Tail(rest), Stacked(Append(lists, RList("Vector", <<>>))),
             level + 1, FALSE)
    ELSE IF peek_ch = Ord("t")
    THEN Arm(Tail(rest), push_stack(lists, TrueExp), level, FALSE)
    ELSE Arm(rest, Unstacked("Found # with invalid char"), level, FALSE)

\* The default arm, sym being what read_symbol returned.
AtomArm(sym, lists, level) ==
    Arm(sym.chars, push_stack(lists, do_atom(sym.val, sym.num)), level, FALSE)

\* The match of read_inner on the character ch; peek_ch is the character
\* after it (a space at the end of the text) and rest the characters
\* after ch.
ReadArm(ch, peek_ch, rest, lists, in_back_quote, level) ==
    IF ch = Ord("\"") THEN StringArm(read_string(rest), lists, level)
    ELSE IF ch = Ord("apostrophe") \/ ch = Ord("backtick")
    THEN QuoteArm(
             read_inner(
                 rest,
                 Append(lists,
                        RList("List",
                              <<SymbolExp(QuoteSymbol(ch, in_back_quote))>>)),
                 in_back_quote \/ ch = Ord("backtick")),
             level)
    ELSE IF ch = Ord(",") /\ in_back_quote
    THEN IF peek_ch = Ord("@")
         THEN Arm(Tail(rest), push_stack(lists, SymbolExp(Str(<<",", "@">>))),
                  level, TRUE)
         ELSE Arm(rest, push_stack(lists, SymbolExp(Str(<<",">>))), level, TRUE)
    ELSE IF ch = Ord("#") THEN HashArm(peek_ch, rest, lists, level)
    ELSE IF ch = Ord("(")
    THEN Arm(rest, Stacked(Append(lists, RList("List", <<>>))), level + 1, FALSE)
    ELSE IF ch = Ord(")")
    THEN IF level <= 0
         THEN Arm(rest, Unstacked("Unexpected )"), level, FALSE)
         ELSE Arm(rest, close_list(lists), level - 1, FALSE)
    ELSE IF ch = Ord(";")
    THEN Arm(consume_line_comment(rest), Stacked(lists), level, FALSE)
    ELSE AtomArm(read_symbol(<<ch>>, rest, FALSE, in_back_quote, FALSE),
                 lists, level)

\* The end of a turn of the loop of read_inner: the error of the arm is
\* returned; a form read at level 0 ends the call, unless a comma asked
\* for the form after it.
ReadTurn(arm, in_back_quote) ==
    IF ~arm.ok THEN InnerErr(arm.err)
    ELSE IF arm.level = 0 /\ ~arm.read_next
    THEN Inner(TRUE, consume_trailing_whitespace(arm.chars), arm.stack)
    ELSE ReadLoop(arm.chars, arm.stack, in_back_quote, arm.level)

\* A turn on the characters chars, which start with no whitespace.
ReadFrom(chars, lists, in_back_quote, level) ==
    ReadTurn(ReadArm(Head(chars),
                     IF Len(chars) > 1 THEN chars[2] ELSE Ord(" "),
                     Tail(chars), lists, in_back_quote, level),
             in_back_quote)

\* The loop of read_inner, from next_chars = next2(chars).
ReadLoop(chars, lists, in_back_quote, level) ==
    IF chars = <<>>
    THEN IF level # 0 THEN InnerErr("Unclosed list(s)")
         ELSE Inner(FALSE, chars, lists)
    ELSE IF SkipWhitespace(chars) = <<>> THEN Inner(FALSE, <<>>, lists)
    ELSE ReadFrom(SkipWhitespace(chars), lists, in_back_quote, level)

\* read_inner(environment, chars, stack, buffer, in_back_quote)
read_inner(chars, lists, in_back_quote) ==
    ReadLoop(chars, lists, in_back_quote, 0)

\* What the reader returns: Ok(expression) or Err(ReadError); "none"
\* before it is called.
ReadOk(exp) == [state |-> "ok", exp |-> exp, err |-> ""]
ReadErr(reason) == [state |-> "err", exp |-> <<>>, err |-> reason]

\* Mutation of Unwrapped: list_only is not looked at.
UnwrappedAny(exp, list_only) == TRUE

\* stack_to_exp: the single expression read is returned as it is, unless
\* list_only is set and it is no vector, list or nil.
Unwrapped(exp, list_only) ==
    list_only => Head(exp)[1] \in {"#(", "(", "nil"}

\* stack_to_exp after close_list: vec holds the expressions read.
Wrapped(vec, always_wrap, list_only) ==
    IF vec = <<>> THEN ReadErr("Empty results")
    ELSE IF Len(vec) = 1 /\ ~always_wrap /\ Unwrapped(vec[1], list_only)
    THEN ReadOk(vec[1])
    ELSE ReadOk(with_list(vec))

\* stack_to_exp after close_list returned closed.
StackExp(closed, always_wrap, list_only) ==
    IF ~closed.ok THEN ReadErr(closed.err)
    ELSE IF Len(closed.stack) > 1 THEN ReadErr("WTF?")
    ELSE Wrapped(closed.stack[1].vec, always_wrap, list_only)

\* stack_to_exp(stack, exp_meta, always_wrap, list_only)
stack_to_exp(lists, always_wrap, list_only) ==
    StackExp(close_list(lists), always_wrap, list_only)

RECURSIVE Read2Loop(_, _)

\* read_inner returned r: it is called again when it says cont.
Read2Turn(r) == IF r.ok /\ r.cont THEN Read2Loop(r.chars, r.stack) ELSE r

\* The loop of read2.
Read2Loop(chars, lists) == Read2Turn(read_inner(chars, lists, FALSE))

\* read2 after its loop ended with r.
Read2End(r, always_wrap, list_only) ==
    IF ~r.ok THEN ReadErr(r.err)
    ELSE IF r.chars # <<>> THEN ReadErr("Premature end (to many ')'?)")
    ELSE stack_to_exp(r.stack, always_wrap, list_only)

\* read2(environment, text, always_wrap, file_name, list_only)
read2(text, always_wrap, list_only) ==
    Read2End(Read2Loop(IF /\ Len(text) >= 2
                          /\ SubSeq(text, 1, 2) = Str(<<"#", "!">>)
                       THEN consume_line_comment(text) ELSE text,
                       <<RList("Vector", <<>>)>>),
             always_wrap, list_only)

\* read(environment, text, name, list_only)
read(text, list_only) == read2(text, FALSE, list_only)

\* read_list_wrap(environment, text, name)
read_list_wrap(text) == read2(text, TRUE, FALSE)

\* The host calls read or read_list_wrap on the text.
ReadText ==
    /\ rres.state = "none"
    /\ rres' = IF rmode.always_wrap THEN read_list_wrap(rtext)
               ELSE read(rtext, rmode.list_only)
    /\ UNCHANGED <<rtext, rforms, rmode>>
    /\ UNCHANGED <<dvars, vmvars, dbgvars, envvars, tyvars, edvars, kvars>>

\* The host takes the result and gives the same text to the other of the
\* two functions.
ReadAgain ==
    /\ rres.state # "none"
    /\ \E w \in BOOLEAN, l \in BOOLEAN :
          /\ w => ~l
          /\ [always_wrap |-> w, list_only |-> l] # rmode
          /\ rmode' = [always_wrap |-> w, list_only |-> l]
    /\ rres' = [state |-> "none", exp |-> <<>>, err |-> ""]
    /\ UNCHANGED <<rtext, rforms>>
    /\ UNCHANGED <<dvars, vmvars, dbgvars, envvars, tyvars, edvars, kvars>>

\* The reader before it is called; the state of Part V while the other
\* parts run.
RdIdle ==
    /\ rtext = <<>>
    /\ rforms = <<>>
    /\ rmode = [always_wrap |-> FALSE, list_only |-> FALSE]
    /\ rres = [state |-> "none", exp |-> <<>>, err |-> ""]

(***************************************************************************)
(* PART VI - conversions between host types and VM values                  *)
(* (builtins/src/types.rs).  A Value is a record of its variant and one    *)
(* number: the scalar of a CodePoint, the handle of a String.  A host      *)
(* String is the sequence of its scalars.  The heap is the engine's.       *)
(***************************************************************************)

MaxHeap == 2              \* strings allocated on the heap
MaxStrLen == 3            \* chars of a string of the heap

\* The chars and Strings the host converts.
HostChars == {97, 955, 2344}
HostStrings == {<<>>, <<104, 105>>, <<2344, 97>>}

\* A Value of variant tag.
Value(tag, val) == [tag |-> tag, val |-> val]

\* The variants of Value that hold neither a CodePoint nor a String
\* handle, as far as the conversions can tell one from the other.
OtherVariants ==
    {"Byte", "Int", "Float", "CharCluster", "CharClusterLong", "Symbol",
     "Keyword", "StringConst", "True", "False", "Nil", "Undefined", "Vector",
     "Pair"}

\* vm.alloc_string(s): the heap with the new string, its handle the last.
alloc_string(heap, s) == Append(heap, s)

\* vm.get_string(h)
get_string(heap, h) == heap[h]

\* VMResult: Ok with a char, a String or a &mut String (the handle whose
\* string it borrows), or Err(VMError).
NoHost == [kind |-> "none", chr |-> 0, str |-> <<>>]
HostChar(c) == [kind |-> "char", chr |-> c, str |-> <<>>]
HostString(s) == [kind |-> "String", chr |-> 0, str |-> s]
NoResult == [state |-> "none", to |-> "", chr |-> 0, str |-> <<>>, h |-> 0,
             err |-> ""]
Converted(to, chr, str, h) ==
    [state |-> "ok", to |-> to, chr |-> chr, str |-> str, h |-> h, err |-> ""]
WrongType(to, what) ==
    [state |-> "err", to |-> to, chr |-> 0, str |-> <<>>, h |-> 0,
     err |-> "Wrong type, expected something that can be cast to a " \o what]

\* impl SlFrom<&Value> for char
char_from_value(value) ==
    IF value.tag = "CodePoint" THEN Converted("char", value.val, <<>>, 0)
    ELSE WrongType("char", "char.")

\* impl SlFrom<char> for Value
value_from_char(c) == Value("CodePoint", c)

\* Mutation of string_from_value: a CodePoint is cast to the String of
\* that one char.
string_from_value_loose(value, heap) ==
    IF value.tag = "String"
    THEN Converted("String", 0, get_string(heap, value.val), 0)
    ELSE IF value.tag = "CodePoint"
    THEN Converted("String", 0, <<value.val>>, 0)
    ELSE WrongType("String", "string.")

\* impl SlFrom<&Value> for String
string_from_value(value, heap) ==
    IF value.tag = "String"
    THEN Converted("String", 0, get_string(heap, value.val), 0)
    ELSE WrongType("String", "string.")

\* impl SlAsMut<String> for &Value
string_as_mut(value) ==
    IF value.tag = "String" THEN Converted("&mut String", 0, <<>>, value.val)
    ELSE WrongType("&mut String", "&mut String.")

\* The host converts the char c: c.sl_into(vm).
CharIntoValue ==
    /\ \E c \in HostChars :
          /\ tval' = value_from_char(c)
          /\ tsrc' = HostChar(c)
    /\ tres' = NoResult
    /\ UNCHANGED theap
    /\ UNCHANGED <<dvars, vmvars, dbgvars, envvars, rdvars, edvars, kvars>>

\* The host converts the String s: s.sl_into(vm) allocates it.
StringIntoValue ==
    /\ Len(theap) < MaxHeap
    /\ \E s \in HostStrings :
          /\ theap' = alloc_string(theap, s)
          /\ tval' = Value("String", Len(theap) + 1)
          /\ tsrc' = HostString(s)
    /\ tres' = NoResult
    /\ UNCHANGED <<dvars, vmvars, dbgvars, envvars, rdvars, edvars, kvars>>

\* The VM hands the host a Value of its own: of another variant, a
\* CodePoint, or a String of the heap.
ValueFromVm ==
    /\ \/ \E tag \in OtherVariants : tval' = Value(tag, 0)
       \/ \E c \in HostChars : tval' = Value("CodePoint", c)
       \/ \E h \in DOMAIN theap : tval' = Value("String", h)
    /\ tsrc' = NoHost
    /\ tres' = NoResult
    /\ UNCHANGED theap
    /\ UNCHANGED <<dvars, vmvars, dbgvars, envvars, rdvars, edvars, kvars>>

\* let c: char = (&val).sl_into(vm)
ValueIntoChar ==
    /\ tval.tag # "none"
    /\ tres.state = "none"
    /\ tres' = char_from_value(tval)
    /\ UNCHANGED <<theap, tval, tsrc>>
    /\ UNCHANGED <<dvars, vmvars, dbgvars, envvars, rdvars, edvars, kvars>>

\* let s: String = (&val).sl_into(vm)
ValueIntoString ==
    /\ tval.tag # "none"
    /\ tres.state = "none"
    /\ tres' = string_from_value(tval, theap)
    /\ UNCHANGED <<theap, tval, tsrc>>
    /\ UNCHANGED <<dvars, vmvars, dbgvars, envvars, rdvars, edvars, kvars>>

\* let s: &mut String = (&val).sl_as_mut(vm)
ValueAsMutString ==
    /\ tval.tag # "none"
    /\ tres.state = "none"
    /\ tres' = string_as_mut(tval)
    /\ UNCHANGED <<theap, tval, tsrc>>
    /\ UNCHANGED <<dvars, vmvars, dbgvars, envvars, rdvars, edvars, kvars>>

\* arg.push_str("0") through the &mut String, as str_test_mut does: the
\* string of the heap changes, and is no longer the one converted.
PushStr ==
    /\ tres.state = "ok"
    /\ tres.to = "&mut String"
    /\ Len(theap[tres.h]) < MaxStrLen
    /\ theap' = [theap EXCEPT ![tres.h] = Append(@, 48)]
    /\ tsrc' = NoHost
    /\ UNCHANGED <<tval, tres>>
    /\ UNCHANGED <<dvars, vmvars, dbgvars, envvars, rdvars, edvars, kvars>>

\* No Value at hand; the state of Part VI while the other parts run.
TyIdle ==
    /\ theap = <<>>
    /\ tval = Value("none", 0)
    /\ tsrc = NoHost
    /\ tres = NoResult

(***************************************************************************)
(* PART VII - the words of the line editor (builtins_edit.rs).  A Buffer   *)
(* is the sequence of its characters; a word is the pair of the index of   *)
(* its first character and the index after its last, counted from 0.       *)
(***************************************************************************)

MaxBuf == 4               \* characters of a Buffer

\* The characters Buffers are made of: a letter, the space, the two
\* parentheses and the backslash.
BufChars == {"a", " ", "(", ")", "\\"}

\* Mutation of IsParen: only ( is looked for.
IsParenOpen(c) == c = "("

\* c == '(' || c == ')'
IsParen(c) == c = "(" \/ c = ")"

RECURSIVE WordsLoop(_, _, _, _, _)

\* The body of the loop of get_liner_words on a character c that is no
\* backslash: the words returned so far and the start of the word being
\* read, -1 for None.
WordsTurn(buf, i, c, res, word_start, just_had_backslash) ==
    IF word_start >= 0
    THEN IF (c = " " \/ IsParen(c)) /\ ~just_had_backslash
         THEN WordsLoop(buf, i + 1,
                        IF IsParen(c)
                        THEN res \o <<<<word_start, i>>, <<i, i + 1>>>>
                        ELSE Append(res, <<word_start, i>>),
                        -1, FALSE)
         ELSE WordsLoop(buf, i + 1, res, word_start, FALSE)
    ELSE IF IsParen(c)
    THEN WordsLoop(buf, i + 1, Append(res, <<i, i + 1>>), -1, FALSE)
    ELSE IF c # " "
    THEN WordsLoop(buf, i + 1, res, i, FALSE)
    ELSE WordsLoop(buf, i + 1, res, -1, FALSE)

\* The loop of get_liner_words over buf.chars().enumerate(), and the push
\* after it.
WordsLoop(buf, i, res, word_start, just_had_backslash) ==
    IF i >= Len(buf)
    THEN IF word_start >= 0 THEN Append(res, <<word_start, Len(buf)>>) ELSE res
    ELSE IF buf[i + 1] = "\\"
    THEN WordsLoop(buf, i + 1, res, word_start, TRUE)
    ELSE WordsTurn(buf, i, buf[i + 1], res, word_start, just_had_backslash)

\* get_liner_words(buf)
get_liner_words(buf) == WordsLoop(buf, 0, <<>>, -1, FALSE)

\* liner asks for the words of the buffer.
GetLinerWords ==
    /\ ~lwords.called
    /\ lwords' = [called |-> TRUE, res |-> get_liner_words(lbuf)]
    /\ UNCHANGED lbuf
    /\ UNCHANGED <<dvars, vmvars, dbgvars, envvars, rdvars, tyvars, kvars>>

\* The user types a character at the end of the buffer; the words are
\* asked for again.
TypeChar ==
    /\ lwords.called
    /\ Len(lbuf) < MaxBuf
    /\ \E c \in BufChars : lbuf' = Append(lbuf, c)
    /\ lwords' = [called |-> FALSE, res |-> <<>>]
    /\ UNCHANGED <<dvars, vmvars, dbgvars, envvars, rdvars, tyvars, kvars>>

\* An empty buffer; the state of Part VII while the other parts run.
EdIdle ==
    /\ lbuf = <<>>
    /\ lwords = [called |-> FALSE, res |-> <<>>]

(***************************************************************************)
(* PART VIII - Chunk::disassemble_chunk with the chunks of its constants.  *)
(* Before its instruction loop, disassemble_chunk calls itself on the      *)
(* chunk of every Lambda and Closure among the constants of the chunk.     *)
(***************************************************************************)

MaxDepth == 4             \* calls of disassemble_chunk the stack has room for

\* The handles of the lambdas of the heap.
LambdaHandles == {1, 2}

\* The constants of a chunk: a number, Lambdas and a Closure.
PoolValues ==
    {Value("Int", 0), Value("Lambda", 1), Value("Lambda", 2),
     Value("Closure", 1)}
ConstPools == UNION {[1..n -> PoolValues] : n \in 0..2}

\* The code of a chunk: none, one instruction, a byte that is no opcode.
NestedCodes == {<<>>, MovMain, <<255>>}

\* vm.get_lambda(h)
get_lambda(heap, h) == heap[h]

\* A call of disassemble_chunk on the chunk of handle h, before its first
\* constant: ci counts the constants gone through, and looping tells
\* whether the instruction loop was entered.
Activation(h) ==
    [h |-> h, ci |-> 0, looping |-> FALSE, op |-> <<>>, pos |-> 0,
     wide |-> FALSE]

\* The call in progress and the chunk it works on.
Top == kstack[Len(kstack)]
TopChunk == get_lambda(kheap, Top.h)

\* The call in progress returns Ok(()) to the call that made it, or to the
\* host.
ReturnOk(calls) == SubSeq(calls, 1, Len(calls) - 1)

\* The host calls disassemble_chunk(vm, 0) on the chunk of handle 1.
NestedDisassemble ==
    /\ kstate = "idle"
    /\ kstack' = <<Activation(1)>>
    /\ kstate' = "running"
    /\ UNCHANGED kheap
    /\ UNCHANGED <<dvars, vmvars, dbgvars, envvars, rdvars, tyvars, edvars>>

\* One turn of `for (i, v) in self.constants.iter().enumerate()` on a
\* constant that is no Lambda and no Closure.
ConstantPlain ==
    /\ kstate = "running"
    /\ ~Top.looping
    /\ Top.ci < Len(TopChunk.constants)
    /\ TopChunk.constants[Top.ci + 1].tag \notin {"Lambda", "Closure"}
    /\ kstack' = [kstack EXCEPT ![Len(kstack)].ci = @ + 1]
    /\ UNCHANGED <<kheap, kstate>>
    /\ UNCHANGED <<dvars, vmvars, dbgvars, envvars, rdvars, tyvars, edvars>>

\* One turn on a Lambda or a Closure: disassemble_chunk is called on its
\* chunk with indent_level + 1.  Nothing tells whether that chunk is being
\* disassembled already.
ConstantChunk ==
    /\ kstate = "running"
    /\ ~Top.looping
    /\ Top.ci < Len(TopChunk.constants)
    /\ TopChunk.constants[Top.ci + 1].tag \in {"Lambda", "Closure"}
    /\ Len(kstack) < MaxDepth
    /\ kstack' = Append([kstack EXCEPT ![Len(kstack)].ci = @ + 1],
                        Activation(TopChunk.constants[Top.ci + 1].val))
    /\ UNCHANGED <<kheap, kstate>>
    /\ UNCHANGED <<dvars, vmvars, dbgvars, envvars, rdvars, tyvars, edvars>>

\* The call on a Lambda or Closure for which the stack has no room: the
\* process is aborted, disassemble_chunk returns nothing.
ConstantOverflow ==
    /\ kstate = "running"
    /\ ~Top.looping
    /\ Top.ci < Len(TopChunk.constants)
    /\ TopChunk.constants[Top.ci + 1].tag \in {"Lambda", "Closure"}
    /\ Len(kstack) >= MaxDepth
    /\ kstate' = "aborted"
    /\ UNCHANGED <<kheap, kstack>>
    /\ UNCHANGED <<dvars, vmvars, dbgvars, envvars, rdvars, tyvars, edvars>>

\* After the constants: let mut code = ..enumerate(); let mut op =
\* code.next(); let mut wide = false.
NestedLoopEnter ==
    /\ kstate = "running"
    /\ ~Top.looping
    /\ Top.ci = Len(TopChunk.constants)
    /\ kstack' = [kstack EXCEPT ![Len(kstack)] =
                     [@ EXCEPT !.looping = TRUE,
                               !.op = IterNext(TopChunk.code, 0),
                               !.pos = IterAdvance(TopChunk.code, 0)]]
    /\ UNCHANGED <<kheap, kstate>>
    /\ UNCHANGED <<dvars, vmvars, dbgvars, envvars, rdvars, tyvars, edvars>>

\* What disassemble_instruction returns in the call in progress.
TopInstruction ==
    disassemble_instruction(TopChunk.code, Top.pos, Top.op[2], Top.wide)

\* One iteration of the instruction loop in which disassemble_instruction
\* returns Ok.
NestedLoopDecoded ==
    /\ kstate = "running"
    /\ Top.looping
    /\ Top.op # <<>>
    /\ TopInstruction.ok
    /\ kstack' = [kstack EXCEPT ![Len(kstack)] =
                     [@ EXCEPT !.wide = TopInstruction.ret,
                               !.op = IterNext(TopChunk.code, TopInstruction.pos),
                               !.pos = IterAdvance(TopChunk.code,
                                                   TopInstruction.pos)]]
    /\ UNCHANGED <<kheap, kstate>>
    /\ UNCHANGED <<dvars, vmvars, dbgvars, envvars, rdvars, tyvars, edvars>>

\* One iteration in which disassemble_instruction returns Err: every call
\* in progress returns it through its `?`.
NestedLoopFailed ==
    /\ kstate = "running"
    /\ Top.looping
    /\ Top.op # <<>>
    /\ ~TopInstruction.ok
    /\ kstack' = <<>>
    /\ kstate' = "chunk_error"
    /\ UNCHANGED kheap
    /\ UNCHANGED <<dvars, vmvars, dbgvars, envvars, rdvars, tyvars, edvars>>

\* The loop condition fails: the call returns Ok(()).
NestedLoopExit ==
    /\ kstate = "running"
    /\ Top.looping
    /\ Top.op = <<>>
    /\ kstack' = ReturnOk(kstack)
    /\ kstate' = IF Len(kstack) = 1 THEN "ok" ELSE "running"
    /\ UNCHANGED kheap
    /\ UNCHANGED <<dvars, vmvars, dbgvars, envvars, rdvars, tyvars, edvars>>

\* No lambda on the heap; the state of Part VIII while the other parts
\* run.
KIdle ==
    /\ kheap = <<>>
    /\ kstack = <<>>
    /\ kstate = "idle"

LibIdle == EnvIdle /\ RdIdle /\ TyIdle /\ EdIdle /\ KIdle


(***************************************************************************)
(* Specifications.                                                         *)
(***************************************************************************)

\* The engine before a chunk is entered; the state of Part II while the
\* disassembler runs.
VmIdle ==
    /\ chunk = [input_regs |-> 0, extra_regs |-> 0]
    /\ globals = <<>>
    /\ stack = <<>>
    /\ frames = <<>>
    /\ ip = 0
    /\ conts = <<>>
    /\ vmstate = "idle"
    /\ host = [kind |-> "none", tag |-> Undef, val |-> Undef]
    /\ err_frame = <<>>
    /\ ran = <<>>
    /\ captured = <<>>
    /\ count = [call |-> 0, tcall |-> 0, dfr |-> 0, invoke |-> 0]
    /\ last = [op |-> "none", a |-> 0, b |-> 0, pre |-> <<>>, n |-> 0]

\* The disassembler before it is called; the state of Part I while the
\* engine runs.
DasmIdle ==
    /\ pos = 0
    /\ op = <<>>
    /\ wide = FALSE
    /\ dstate = "idle"
    /\ listing = <<>>
    /\ last_line = 0

\* The debugger before the host calls debug(vm).
DbgIdle ==
    /\ dbg = "off"
    /\ cmd = [name |-> "none", param |-> [kind |-> "none", v |-> 0]]
    /\ out = <<>>
    /\ interned = {}

\* The host entered a chunk: one window, slot 0 empty and every other
\* register holding what the host passed (nothing or a closure), no
\* CallFrame marker, instruction pointer 0.
VmInit ==
    /\ chunk \in Chunks
    /\ globals = HostGlobals
    /\ stack \in [1..WindowSize(chunk) -> {Undef, ClosureV(1)}]
    /\ stack[1] = Undef
    /\ frames = <<NewFrame(0, 0, 0, 0)>>
    /\ ip = 0
    /\ conts = <<>>
    /\ vmstate = "running"
    /\ host = [kind |-> "none", tag |-> Undef, val |-> Undef]
    /\ err_frame = <<>>
    /\ ran = <<>>
    /\ captured = <<>>
    /\ count = [call |-> 0, tcall |-> 0, dfr |-> 0, invoke |-> 0]
    /\ last = [op |-> "none", a |-> 0, b |-> 0, pre |-> <<>>, n |-> 0]
    /\ code = <<>>
    /\ lines = <<>>
    /\ DasmIdle
    /\ DbgIdle
    /\ LibIdle

\* The run has executed fewer than n instructions.
Within(n) == last.n < n

\* Calls, tail calls and returns.
TailNext ==
    \/ \E r \in Regs : Within(MaxSteps) /\ REGI(r, 42)
    \/ \E na \in Regs, r \in Regs :
          Within(MaxSteps) /\ count.call < MaxCalls /\ CALLM(na, r)
    \/ \E na \in Regs : Within(MaxSteps) /\ TCALLM(na)
    \/ Within(MaxSteps) /\ RET
    \/ \E r \in Regs : Within(MaxSteps) /\ SRET(r)

SpecTail == VmInit /\ [][TailNext]_vars

\* Continuation capture and invocation among register writes and calls.
ContNext ==
    \/ \E r \in Regs, n \in Ints : Within(MaxSteps) /\ REGI(r, n)
    \/ \E na \in Regs, r \in Regs :
          Within(MaxSteps) /\ count.call < MaxCalls /\ CALLM(na, r)
    \/ \E r \in Regs : Within(MaxSteps) /\ SRET(r)
    \/ \E r \in Regs : Within(MaxSteps) /\ CCC(r)
    \/ \E r \in Regs : Within(MaxSteps) /\ INVOKE(r)

SpecCont == VmInit /\ [][ContNext]_vars

\* Defer stacks, handlers and error unwinding across calls.
UnwindNext ==
    \/ \E r \in Regs : Within(MaxSteps) /\ REGI(r, 42)
    \/ \E r \in Regs, c \in ClosureIds : Within(MaxSteps) /\ CLOSE(r, c)
    \/ \E na \in Regs, r \in Regs :
          Within(MaxSteps) /\ count.call < MaxCalls /\ CALLM(na, r)
    \/ Within(MaxSteps) /\ RET
    \/ \E r \in Regs : Within(MaxSteps) /\ DFR(r)
    \/ Within(MaxSteps) /\ DFRPOP
    \/ \E r \in Regs : Within(MaxSteps) /\ ONERR(r)
    \/ \E rt \in Regs, rp \in Regs :
          Within(MaxSteps) /\ ERR(rt, rp, IntV(99))

SpecUnwind == VmInit /\ [][UnwindNext]_vars

\* Error unwinding through nested calls: runs of MaxNestedSteps
\* instructions of calls, defers, handlers and errors.
NestedNext ==
    \/ \E na \in Regs, r \in Regs :
          Within(MaxNestedSteps) /\ count.call < MaxNesting /\ CALLM(na, r)
    \/ \E r \in Regs : Within(MaxNestedSteps) /\ DFR(r)
    \/ \E r \in Regs : Within(MaxNestedSteps) /\ ONERR(r)
    \/ \E rt \in Regs, rp \in Regs :
          Within(MaxNestedSteps) /\ ERR(rt, rp, IntV(99))

SpecNested == VmInit /\ [][NestedNext]_vars

\* Continuation capture and invocation among defers, handlers, errors and
\* calls.
EscapeNext ==
    \/ \E r \in Regs : Within(MaxSteps) /\ CCC(r)
    \/ \E r \in Regs : Within(MaxSteps) /\ INVOKE(r)
    \/ \E r \in Regs : Within(MaxSteps) /\ DFR(r)
    \/ \E r \in Regs : Within(MaxSteps) /\ ONERR(r)
    \/ \E na \in Regs, r \in Regs :
          Within(MaxSteps) /\ count.call < MaxCalls /\ CALLM(na, r)
    \/ Within(MaxSteps) /\ RET
    \/ \E rt \in Regs, rp \in Regs :
          Within(MaxSteps) /\ ERR(rt, rp, IntV(99))

SpecEscape == VmInit /\ [][EscapeNext]_vars

\* Calls of closures held in registers and globals, and returns.
CallNext ==
    \/ \E r \in Regs : Within(MaxSteps) /\ REGI(r, 42)
    \/ \E f \in Regs, na \in Regs, r \in Regs :
          Within(MaxSteps) /\ count.call < MaxCalls /\ CALL(f, na, r)
    \/ \E g \in DOMAIN globals, na \in Regs, r \in Regs :
          Within(MaxSteps) /\ count.call < MaxCalls /\ CALLG(g, na, r)
    \/ Within(MaxSteps) /\ RET
    \/ \E r \in Regs : Within(MaxSteps) /\ SRET(r)

SpecCall == VmInit /\ [][CallNext]_vars

\* A decoded instruction of a chunk.
Instr(name, a, b, c) == [op |-> name, a |-> a, b |-> b, c |-> c]

\* The chunk compiled from (+ 1 2).
AddChunk ==
    <<Instr("REGI", 1, 1, 0), Instr("REGI", 2, 2, 0),
      Instr("ADD", 0, 1, 2), Instr("SRET", 0, 0, 0)>>

AddRegs == 0..2           \* the registers of the chunks that add
AddInts == {1, 2}         \* the integers they load

\* The chunks that load two registers, add two registers and return one.
AddChunks ==
    {[input_regs |-> 0, extra_regs |-> 2,
      instrs |-> <<Instr("REGI", r1, n1, 0), Instr("REGI", r2, n2, 0),
                   Instr("ADD", d, a, b), Instr("SRET", r, 0, 0)>>] :
        r1 \in AddRegs, n1 \in AddInts, r2 \in AddRegs, n2 \in AddInts,
        d \in AddRegs, a \in AddRegs, b \in AddRegs, r \in AddRegs}

\* The host entered one of these chunks without arguments.
AddInit ==
    /\ chunk \in AddChunks
    /\ globals = HostGlobals
    /\ stack = [i \in 1..WindowSize(chunk) |-> Undef]
    /\ frames = <<NewFrame(0, 0, 0, 0)>>
    /\ ip = 0
    /\ conts = <<>>
    /\ vmstate = "running"
    /\ host = [kind |-> "none", tag |-> Undef, val |-> Undef]
    /\ err_frame = <<>>
    /\ ran = <<>>
    /\ captured = <<>>
    /\ count = [call |-> 0, tcall |-> 0, dfr |-> 0, invoke |-> 0]
    /\ last = [op |-> "none", a |-> 0, b |-> 0, pre |-> <<>>, n |-> 0]
    /\ code = <<>>
    /\ lines = <<>>
    /\ DasmIdle
    /\ DbgIdle
    /\ LibIdle

\* The instruction at the instruction pointer.
Dispatch(i) == ip < Len(chunk.instrs) /\ chunk.instrs[ip + 1] = i

\* The dispatch loop on the chunk entered.
AddNext ==
    \/ \E r \in Regs, n \in AddInts :
          Dispatch(Instr("REGI", r, n, 0)) /\ REGI(r, n)
    \/ \E d \in Regs, a \in Regs, b \in Regs :
          Dispatch(Instr("ADD", d, a, b)) /\ ADD(d, a, b)
    \/ \E r \in Regs : Dispatch(Instr("SRET", r, 0, 0)) /\ SRET(r)

\* The loop dispatches until the chunk returns or fails.
SpecAdd == AddInit /\ [][AddNext]_vars /\ WF_vars(AddNext)

DasmInit ==
    /\ code \in CodeInputs
    /\ lines = <<>>
    /\ DasmIdle
    /\ DbgIdle
    /\ LibIdle
    /\ VmIdle

DasmNext == DisassembleChunk \/ LoopDecoded \/ LoopFailed \/ LoopExit

SpecDasm == DasmInit /\ [][DasmNext]_vars

MaxDebugSteps == 3        \* instructions run before the debugger is entered
MaxDebugCalls == 2        \* calls in progress when the debugger is entered

RegNames == <<"a", "b", "c">>

\* Chunk::dbg_args: None (<<>>) or Some(names) (<<names>>), from no name to
\* more names than a window has registers.
DbgArgs == {<<>>} \cup {<<SubSeq(RegNames, 1, n)>> : n \in 0..Len(RegNames)}

\* The declared <<input_regs, extra_regs>> of the chunks debugged.
DebugRegs == {<<0, 0>>, <<1, 0>>, <<1, 1>>}

\* The chunks the debugger is used on.
DebugChunks ==
    {[input_regs |-> ie[1], extra_regs |-> ie[2], dbg_args |-> d] :
        ie \in DebugRegs, d \in DbgArgs}

\* Their code as the disassembler sees it: one that lists, one that fails.
DebugCodes == {MovMain, <<200>>}

\* The host entered a chunk that has debug information.
DebugInit ==
    /\ chunk \in DebugChunks
    /\ globals = HostGlobals
    /\ \E v \in {Undef, ClosureV(1)} :
          stack = [i \in 1..WindowSize(chunk) |-> IF i = 1 THEN Undef ELSE v]
    /\ frames = <<NewFrame(0, 0, 0, 0)>>
    /\ ip = 0
    /\ conts = <<>>
    /\ vmstate = "running"
    /\ host = [kind |-> "none", tag |-> Undef, val |-> Undef]
    /\ err_frame = <<>>
    /\ ran = <<>>
    /\ captured = <<>>
    /\ count = [call |-> 0, tcall |-> 0, dfr |-> 0, invoke |-> 0]
    /\ last = [op |-> "none", a |-> 0, b |-> 0, pre |-> <<>>, n |-> 0]
    /\ code \in DebugCodes
    /\ lines = <<>>
    /\ DasmIdle
    /\ DbgIdle
    /\ LibIdle

\* A chunk runs, returns or fails; the host enters the debugger, types
\* commands, leaves it and clears the error frame.
DebugNext ==
    \/ \E r \in Regs : Within(MaxDebugSteps) /\ REGI(r, 42)
    \/ \E r \in Regs :
          Within(MaxDebugSteps) /\ count.call < MaxDebugCalls /\ CALLM(0, r)
    \/ Within(MaxDebugSteps) /\ RET
    \/ \E r \in Regs : Within(MaxDebugSteps) /\ ONERR(r)
    \/ Within(MaxDebugSteps) /\ ERR(0, 0, IntV(99))
    \/ DebugEnter
    \/ CmdAbort
    \/ CmdGlobals
    \/ \E p \in Params : CmdDasm(p)
    \/ \E p \in Params : CmdRegs(p)
    \/ CmdRegsRaw
    \/ CmdStack
    \/ CmdOther
    \/ CmdReaderError
    \/ LoopDecoded
    \/ LoopFailed
    \/ LoopExit
    \/ ClearErrFrame

SpecDebug == DebugInit /\ [][DebugNext]_vars

\* The namespaces a program starts in.
Namespaces == {<<>>, [x |-> IntV(1)], [x |-> IntV(1), y |-> IntV(1)]}

\* The scope stacks a program starts in: none; one scope that binds x; a
\* scope that binds x and, above it, the scope of a call that is nested in
\* the namespace and not in that scope.
ScopeStacks ==
    {<<>>,
     <<Scope([x |-> IntV(2)], 0)>>,
     <<Scope([x |-> IntV(2)], 0), Scope(<<>>, 0)>>}

BindInit ==
    /\ dynamic_scope = <<>>
    /\ scopes \in ScopeStacks
    /\ namespace \in Namespaces
    /\ ctl = <<>>
    /\ status = "ok"
    /\ ret = Ok(NilE)
    /\ elast = [op |-> "none", key |-> "", n |-> 0]
    /\ RdIdle
    /\ TyIdle
    /\ EdIdle
    /\ KIdle
    /\ code = <<>>
    /\ lines = <<>>
    /\ DasmIdle
    /\ DbgIdle
    /\ VmIdle

BindNext ==
    \/ \E k \in {"sym", "other", "err"}, key \in Syms, v \in ValExprs,
          n \in 1..4 : DynCall(k, key, v, n)
    \/ DynReturn
    \/ LexCall
    \/ LexReturn
    \/ \E key \in Syms, v \in ValExprs, w \in BOOLEAN : Set(key, v, w)
    \/ \E key \in Syms, v \in ValExprs, w \in BOOLEAN : Var(key, v, w)
    \/ \E key \in Syms, w \in BOOLEAN : UndefSym(key, w)
    \/ \E key \in Syms : IsDef(key)
    \/ Raise
    \/ GetErrorCall
    \/ GetErrorReturn
    \/ TopLevelError

SpecBind == BindInit /\ [][BindNext]_vars

MaxTopForms == 3          \* top-level forms of a text

\* The forms texts are made of: atoms, nil and the empty list, a list, a
\* vector, and
\* quoted and back-quoted forms with commas inside.
FormTexts ==
    {Str(<<"1">>),
     Str(<<"x">>),
     Str(<<"n", "i", "l">>),
     Str(<<"(", ")">>),
     Str(<<"(", "1", " ", "2", " ", "3", ")">>),
     Str(<<"#", "(", "1", " ", "x", ")">>),
     Str(<<"apostrophe", "x">>),
     Str(<<"apostrophe", "(", "1", " ", ",", "3", ")">>),
     Str(<<"backtick", "(", "1", " ", ",", "3", ")">>),
     Str(<<"backtick", "(", "1", " ", ",", "@", "3", ")">>),
     Str(<<"backtick", "(", "1", " ", "backtick", "2", " ", ",", "@", "3", ")">>),
     Str(<<"backtick", "(", "apostrophe", "(", ",", "x", ")", ")">>),
     Str(<<"(", "backtick", "x", " ", ",", "3", ")">>)}

\* The forms of fs one after the other, a space between them.
RECURSIVE Join(_)
Join(fs) ==
    IF Len(fs) = 1 THEN fs[1]
    ELSE fs[1] \o Str(<<" ">>) \o Join(Tail(fs))

ReadInit ==
    /\ \E n \in 1..MaxTopForms :
          \E fs \in [1..n -> FormTexts] : rforms = fs /\ rtext = Join(fs)
    /\ rmode \in {[always_wrap |-> FALSE, list_only |-> FALSE],
                  [always_wrap |-> FALSE, list_only |-> TRUE],
                  [always_wrap |-> TRUE, list_only |-> FALSE]}
    /\ rres = [state |-> "none", exp |-> <<>>, err |-> ""]
    /\ EnvIdle
    /\ TyIdle
    /\ EdIdle
    /\ KIdle
    /\ code = <<>>
    /\ lines = <<>>
    /\ DasmIdle
    /\ DbgIdle
    /\ VmIdle

ReadNext ==
    \/ ReadText
    \/ ReadAgain

SpecRead == ReadInit /\ [][ReadNext]_vars

MaxPieces == 3            \* pieces of a string literal

\* The pieces string literals are made of: characters that are no hex
\* digits, the escapes of read_string, \x with two hex digits of either
\* case and with a code above 0x7f, and \u with and without braces.
StringPieces ==
    {Str(<<"z">>),
     Str(<<" ">>),
     Str(<<"n">>),
     Str(<<"\\", "n">>),
     Str(<<"\\", "r">>),
     Str(<<"\\", "t">>),
     Str(<<"\\", "\"">>),
     Str(<<"\\", "\\">>),
     Str(<<"\\", "x", "2", "f">>),
     Str(<<"\\", "x", "2", "F">>),
     Str(<<"\\", "x", "8", "0">>),
     Str(<<"\\", "u", "{", "3", "b", "b", "}">>),
     Str(<<"\\", "u", "4", "1">>)}

\* The pieces of ps one after the other.
RECURSIVE Concat(_)
Concat(ps) == IF ps = <<>> THEN <<>> ELSE Head(ps) \o Concat(Tail(ps))

\* The text is one string literal: the pieces between two double quotes.
StringInit ==
    /\ \E n \in 1..MaxPieces :
          \E ps \in [1..n -> StringPieces] :
             /\ rforms = ps
             /\ rtext = Str(<<"\"">>) \o Concat(ps) \o Str(<<"\"">>)
    /\ rmode \in {[always_wrap |-> FALSE, list_only |-> FALSE],
                  [always_wrap |-> FALSE, list_only |-> TRUE],
                  [always_wrap |-> TRUE, list_only |-> FALSE]}
    /\ rres = [state |-> "none", exp |-> <<>>, err |-> ""]
    /\ EnvIdle
    /\ TyIdle
    /\ EdIdle
    /\ KIdle
    /\ code = <<>>
    /\ lines = <<>>
    /\ DasmIdle
    /\ DbgIdle
    /\ VmIdle

SpecString == StringInit /\ [][ReadNext]_vars

MaxParenPieces == 4       \* pieces of a text of parentheses

\* The pieces texts of parentheses are made of: the openers ( and #(, the
\* closer, an atom, a space, a quote, and a parenthesis inside a string
\* literal and inside a line comment.
ParenPieces ==
    {Str(<<"(">>),
     Str(<<"#", "(">>),
     Str(<<")">>),
     Str(<<"a">>),
     Str(<<" ">>),
     Str(<<"apostrophe">>),
     Str(<<"\"", "(", "\"">>),
     Str(<<" ", ";", ")", "\n">>)}

\* The text is the pieces one after the other.
ParenInit ==
    /\ \E n \in 1..MaxParenPieces :
          \E ps \in [1..n -> ParenPieces] :
             /\ rforms = ps
             /\ rtext = Concat(ps)
    /\ rmode \in {[always_wrap |-> FALSE, list_only |-> FALSE],
                  [always_wrap |-> FALSE, list_only |-> TRUE],
                  [always_wrap |-> TRUE, list_only |-> FALSE]}
    /\ rres = [state |-> "none", exp |-> <<>>, err |-> ""]
    /\ EnvIdle
    /\ TyIdle
    /\ EdIdle
    /\ KIdle
    /\ code = <<>>
    /\ lines = <<>>
    /\ DasmIdle
    /\ DbgIdle
    /\ VmIdle

SpecParens == ParenInit /\ [][ReadNext]_vars

TypesInit ==
    /\ TyIdle
    /\ EdIdle
    /\ KIdle
    /\ EnvIdle
    /\ RdIdle
    /\ code = <<>>
    /\ lines = <<>>
    /\ DasmIdle
    /\ DbgIdle
    /\ VmIdle

TypesNext ==
    \/ CharIntoValue
    \/ StringIntoValue
    \/ ValueFromVm
    \/ ValueIntoChar
    \/ ValueIntoString
    \/ ValueAsMutString
    \/ PushStr

SpecTypes == TypesInit /\ [][TypesNext]_vars

WordsInit ==
    /\ EdIdle
    /\ KIdle
    /\ EnvIdle
    /\ RdIdle
    /\ TyIdle
    /\ code = <<>>
    /\ lines = <<>>
    /\ DasmIdle
    /\ DbgIdle
    /\ VmIdle

WordsNext ==
    \/ GetLinerWords
    \/ TypeChar

SpecWords == WordsInit /\ [][WordsNext]_vars

\* The heap holds the chunk disassembled and one more; their constants
\* may hold the handle of either.
NestedInit ==
    /\ kheap \in [LambdaHandles -> [constants : ConstPools, code : NestedCodes]]
    /\ kstack = <<>>
    /\ kstate = "idle"
    /\ EnvIdle
    /\ RdIdle
    /\ TyIdle
    /\ EdIdle
    /\ code = <<>>
    /\ lines = <<>>
    /\ DasmIdle
    /\ DbgIdle
    /\ VmIdle

NestedDasmNext ==
    \/ NestedDisassemble
    \/ ConstantPlain
    \/ ConstantChunk
    \/ ConstantOverflow
    \/ NestedLoopEnter
    \/ NestedLoopDecoded
    \/ NestedLoopFailed
    \/ NestedLoopExit

\* disassemble_chunk runs on until it returns or the process is aborted.
SpecNestedDasm ==
    NestedInit /\ [][NestedDasmNext]_vars /\ WF_vars(NestedDasmNext)

MaxLineItems == 3         \* instructions of a chunk with a line table
MaxLine == 2              \* source lines run from 1 to MaxLine

\* A line passed to an encode call: None or Some(line), lines from 1 as in
\* Chunk::new("no_file", 1).
LineOpts == {<<>>} \cup {<<l>> : l \in 1..MaxLine}

\* The instructions of the chunks with a line table, and a byte that is no
\* opcode.
LineItems ==
    {<<ByteOf("RET")>>, Encode("MOV", FALSE, SmallVal), <<200>>}

\* The line table of a chunk whose k-th instruction was encoded with line
\* ls[k]: every byte of the instruction maps to that line.
RECURSIVE LineTable(_, _)
LineTable(its, ls) ==
    IF its = <<>> THEN <<>>
    ELSE [i \in 1..Len(Head(its)) |-> Head(ls)]
         \o LineTable(Tail(its), Tail(ls))

\* A chunk built by encode calls that pass a line or None, then listed.
LinesInit ==
    /\ \E n \in 1..MaxLineItems :
          \E its \in [1..n -> LineItems], ls \in [1..n -> LineOpts] :
             /\ code = Flatten(its)
             /\ lines = LineTable(its, ls)
    /\ DasmIdle
    /\ DbgIdle
    /\ LibIdle
    /\ VmIdle

SpecLines == LinesInit /\ [][DasmNext]_vars

(***************************************************************************)
(* Properties of the instruction codec (specification SpecDasm).           *)
(***************************************************************************)

\* Bytes of the operands of a decoded instruction.
RECURSIVE SumWidths(_)
SumWidths(ops) ==
    IF ops = <<>> THEN 0 ELSE Head(ops).width + SumWidths(Tail(ops))

\* Bytes the operand list of mnemonic mn takes at the given width.
RECURSIVE NeededBytes(_, _)
NeededBytes(kinds, w) ==
    IF kinds = <<>> THEN 0
    ELSE EncodedWidth(Head(kinds), w) + NeededBytes(Tail(kinds), w)

\* Bytes of the stream taken by the instructions listed so far.
RECURSIVE ListedBytes(_)
ListedBytes(l) ==
    IF l = <<>> THEN 0 ELSE 1 + SumWidths(Head(l).ops) + ListedBytes(Tail(l))

\* C6: the WIDE prefix affects exactly one instruction.  The wide flag is
\* false when the loop of a chunk starts; an instruction is decoded with
\* wide operand widths exactly when the instruction decoded just before it
\* is a WIDE opcode, and with narrow widths in every other case.
C6_WideAffectsOneInstruction ==
    /\ (dstate = "running" /\ listing = <<>>) => ~wide
    /\ (dstate = "running" /\ listing # <<>>)
          => (wide <=> listing[Len(listing)].mn = "WIDE")
    /\ \A i \in DOMAIN listing :
          /\ listing[i].wide <=> (i > 1 /\ listing[i - 1].mn = "WIDE")
          /\ \A j \in DOMAIN listing[i].ops :
                listing[i].ops[j].width =
                    EncodedWidth(listing[i].ops[j].kind,
                                 i > 1 /\ listing[i - 1].mn = "WIDE")

\* C6 witness: WIDE; MOV; MOV was decoded, the first MOV with two-byte
\* operands and the second with one-byte operands.
C6_Witness ==
    /\ Len(listing) >= 3
    /\ listing[1].mn = "WIDE"
    /\ listing[2].mn = "MOV" /\ listing[2].ops[1].width = 2
    /\ listing[3].mn = "MOV" /\ listing[3].ops[1].width = 1

\* C7: a register or constant operand takes 1 byte in a narrow context and
\* its value is that byte; in a wide context it takes 2 bytes b0, b1 and
\* its value is b0 * 256 + b1.  Each opcode is read at the offset of the
\* previous opcode plus 1 plus the widths of the previous operands.
C7_OperandDecoding ==
    \A i \in DOMAIN listing :
       /\ listing[i].off = IF i = 1 THEN 0
                           ELSE listing[i - 1].off + 1
                                + SumWidths(listing[i - 1].ops)
       /\ code[listing[i].off + 1] = ByteOf(listing[i].mn)
       /\ \A j \in DOMAIN listing[i].ops :
             LET o == listing[i].ops[j]
             IN  o.kind \in {"R", "K", "GR"} =>
                    IF listing[i].wide
                    THEN /\ o.width = 2
                         /\ o.val = code[o.at + 1] * 256 + code[o.at + 2]
                    ELSE /\ o.width = 1
                         /\ o.val = code[o.at + 1]

\* C7 witness: a register operand was decoded from one byte to that byte,
\* and under WIDE a register or constant operand was decoded from two
\* different bytes, so that the order of the bytes matters.
C7_Witness ==
    /\ \E i \in DOMAIN listing : \E j \in DOMAIN listing[i].ops :
          /\ ~listing[i].wide
          /\ listing[i].ops[j].kind = "R"
          /\ listing[i].ops[j].width = 1
          /\ listing[i].ops[j].val = SmallVal
    /\ \E i \in DOMAIN listing : \E j \in DOMAIN listing[i].ops :
          LET o == listing[i].ops[j]
          IN  /\ listing[i].wide
              /\ o.kind \in {"R", "K"}
              /\ o.width = 2
              /\ code[o.at + 1] # code[o.at + 2]
              /\ o.val = code[o.at + 1] * 256 + code[o.at + 2]
              /\ i < Len(listing)

\* The width of a big immediate.
BigWidth(w) == IF w THEN 4 ELSE 2

\* The width of a register operand.
RegWidth(w) == IF w THEN 2 ELSE 1

\* C8 as stated: every operand printed inside G[...] is decoded with the
\* big-immediate width, 2 bytes narrow and 4 bytes wide.
C8_EveryGlobalOperandIsBig ==
    \A i \in DOMAIN listing : \A j \in DOMAIN listing[i].ops :
       listing[i].ops[j].kind \in {"GR", "GB"}
          => listing[i].ops[j].width = BigWidth(listing[i].wide)

\* C8 amended: the operand inside G[...] of REFI, CALLG and TCALLG is
\* decoded with the big-immediate width (2 bytes narrow, 4 bytes wide); the
\* operand inside G[...] of REF, DEF and DEFV is decoded as a register
\* operand (1 byte narrow, 2 bytes wide).  No other opcode has one.
C8_GlobalOperandWidths ==
    \A i \in DOMAIN listing :
       LET gops == {j \in DOMAIN listing[i].ops :
                       listing[i].ops[j].kind \in {"GR", "GB"}}
       IN  /\ listing[i].mn \in {"REFI", "CALLG", "TCALLG"}
              => /\ Cardinality(gops) = 1
                 /\ \A j \in gops :
                       listing[i].ops[j].width = BigWidth(listing[i].wide)
           /\ listing[i].mn \in {"REF", "DEF", "DEFV"}
              => /\ Cardinality(gops) = 1
                 /\ \A j \in gops :
                       listing[i].ops[j].width = RegWidth(listing[i].wide)
           /\ listing[i].mn \notin {"REFI", "CALLG", "TCALLG",
                                    "REF", "DEF", "DEFV"}
              => gops = {}

\* C8 witness: a REFI decoded under WIDE with a 4-byte global operand, and
\* a narrow REF decoded with a 1-byte operand inside G[...].
C8_Witness ==
    /\ \E i \in DOMAIN listing :
          /\ listing[i].mn = "REFI" /\ listing[i].wide
          /\ listing[i].ops[2].width = 4
    /\ \E i \in DOMAIN listing :
          /\ listing[i].mn = "REF" /\ ~listing[i].wide
          /\ listing[i].ops[2].width = 1

\* The stream ends inside the operands of the instruction about to be
\* decoded.
TruncatedHere ==
    /\ dstate = "running"
    /\ op # <<>>
    /\ OpOf(op[2]) # "unknown"
    /\ Len(code) - pos < NeededBytes(Operands(OpOf(op[2])), wide)

\* C9: when the stream ends inside an instruction's operands, decoding
\* stops with the chunk error, the instruction is not listed and neither
\* the host nor the engine sees a runtime error; decoding ends with Ok
\* only when the instructions listed take exactly the bytes of the stream.
C9_TruncationIsChunkError ==
    /\ [](dstate = "ok" => ListedBytes(listing) = Len(code))
    /\ [][TruncatedHere => /\ dstate' = "chunk_error"
                           /\ listing' = listing
                           /\ host' = host /\ vmstate' = vmstate]_vars

\* C9 witness: decoding stopped with the chunk error after it consumed a
\* part of the operands of a known opcode and the stream ran out.
C9_Witness ==
    /\ dstate = "chunk_error"
    /\ op # <<>>
    /\ OpOf(op[2]) # "unknown"
    /\ pos = Len(code)
    /\ pos > op[1] + 1

\* The byte b is the byte of no opcode.
NoOpcode(b) == \A i \in DOMAIN OpCodes : b # i - 1

\* C10: a byte that is no opcode stops decoding with the chunk error at
\* that instruction: it is not listed, nothing is decoded after the error
\* (the error state has no successor) and no runtime error is raised.
C10_UnknownOpcodeIsChunkError ==
    /\ [](\A i \in DOMAIN listing : ~NoOpcode(code[listing[i].off + 1]))
    /\ [][/\ dstate # "chunk_error"
          /\ (dstate = "running" /\ op # <<>> /\ NoOpcode(op[2]))
                => /\ dstate' = "chunk_error"
                   /\ listing' = listing
                   /\ host' = host /\ vmstate' = vmstate]_vars

\* C10 witness: decoding stopped with the chunk error at a byte that is no
\* opcode after it listed at least one instruction, with bytes left over.
C10_Witness ==
    /\ dstate = "chunk_error"
    /\ op # <<>>
    /\ NoOpcode(op[2])
    /\ listing # <<>>
    /\ pos < Len(code)

(***************************************************************************)
(* Properties of the execution engine (specifications SpecTail, SpecCont,  *)
(* SpecUnwind and SpecNested).                                             *)
(***************************************************************************)

\* C1: a TCALLM step never pushes a CallFrame marker and never grows the
\* register window, so the call-stack depth of a run is bounded by the
\* number of its CALLM steps however many TCALLM steps it takes: a chunk
\* that only tail-calls itself and then returns runs at depth 0.
C1_TailCallBoundedDepth ==
    /\ [](/\ CallDepth(stack) = Len(frames) - 1
          /\ CallDepth(stack) <= count.call
          /\ Len(stack) <= (count.call + 1) * (WindowSize(chunk) + 1) - 1)
    /\ [][last'.op = "TCALLM" => /\ CallDepth(stack') = CallDepth(stack)
                                 /\ Len(stack') = Len(stack)
                                 /\ frames' = frames]_vars

\* C1 witness: a run of MaxTailCalls tail calls and no call returned to
\* the host on the one window it was entered with.
C1_Witness ==
    /\ vmstate = "returned"
    /\ count.tcall >= 2
    /\ count.call = 0
    /\ CallDepth(stack) = 0
    /\ Len(stack) = WindowSize(chunk)

\* C2: invoking a continuation leaves every slot of the captured stack
\* slice with exactly the value it held when the continuation was
\* captured, whatever was written in between, and execution resumes at the
\* instruction pointer saved at capture.
C2_ContinuationRestores ==
    [][last'.op = "INVOKE"
          => /\ Reg(last'.a).tag = "Continuation"
             /\ stack' = captured[Reg(last'.a).v].stack
             /\ ip' = captured[Reg(last'.a).v].ip]_vars

\* C2 witness: a register held 42 at capture, was overwritten with 99, and
\* reads 42 after the invocation.
C2_Witness ==
    /\ last.op = "INVOKE"
    /\ captured # <<>>
    /\ \E i \in DOMAIN stack :
          /\ i \in DOMAIN last.pre
          /\ i \in DOMAIN captured[1].stack
          /\ captured[1].stack[i] = IntV(42)
          /\ last.pre[i] = IntV(99)
          /\ stack[i] = IntV(42)

\* The identifiers of the defer entries in `ran`.
RanDefers == {i \in DOMAIN ran : ran[i].kind = "defer"}

\* C3: a normal return of a frame with the pending defers D1 .. Dn, pushed
\* in that order, runs Dn, .., D1 in that order; a defer entry runs at
\* most once, and no defer entry that is still pending has run.
C3_DefersRunInReverseOnce ==
    /\ [](/\ \A i, j \in RanDefers : ran[i].id = ran[j].id => i = j
          /\ \A k \in DOMAIN frames : \A d \in DOMAIN frames[k].defers :
                \A i \in RanDefers : ran[i].id # frames[k].defers[d].id)
    /\ [][last'.op \in {"RET", "SRET"}
             => /\ Len(ran') = Len(ran) + Len(Cur.defers)
                /\ SubSeq(ran', 1, Len(ran)) = ran
                /\ \A i \in 1..Len(Cur.defers) :
                      LET e == ran'[Len(ran) + i]
                          d == Cur.defers[Len(Cur.defers) - i + 1]
                      IN  /\ e.kind = "defer"
                          /\ e.id = d.id
                          /\ e.fn = d.fn
                          /\ e.frame = Cur.id]_vars

\* C3 witness: a frame pushed D1, D2, D3 and returned; D3, D2, D1 ran.
C3_Witness ==
    /\ last.op = "RET"
    /\ Len(ran) = 3
    /\ ran[1].kind = "defer" /\ ran[1].id = 3
    /\ ran[2].kind = "defer" /\ ran[2].id = 2
    /\ ran[3].kind = "defer" /\ ran[3].id = 1
    /\ ran[1].frame = ran[2].frame /\ ran[2].frame = ran[3].frame

PendingIds(fs) ==
    UNION {{fs[k].defers[d].id : d \in DOMAIN fs[k].defers} : k \in DOMAIN fs}

\* The identifiers of the defer entries that have run.
RanIds(rn) == {rn[i].id : i \in {j \in DOMAIN rn : rn[j].kind = "defer"}}

\* C11: DFRPOP removes exactly the most recently pushed entry of the active
\* frame's defer stack and runs nothing: the entries pushed before it keep
\* their order and the other frames their stacks.  The removed entry never
\* runs afterwards: a step runs only entries that are pending before it,
\* and an entry that becomes pending is a new one.
C11_DfrpopRemovesWithoutRunning ==
    /\ [][last'.op = "DFRPOP"
             => /\ Cur.defers # <<>>
                /\ Len(frames') = Len(frames)
                /\ frames'[Len(frames)].defers =
                      SubSeq(Cur.defers, 1, Len(Cur.defers) - 1)
                /\ \A k \in 1..(Len(frames) - 1) : frames'[k] = frames[k]
                /\ ran' = ran
                /\ stack' = stack]_vars
    /\ [][/\ RanIds(ran') \ RanIds(ran) \subseteq PendingIds(frames)
          /\ \A id \in PendingIds(frames') \ PendingIds(frames) :
                id > count.dfr]_vars

\* C11 witness: DFR D1; DFR D2; DFRPOP; RET in one frame: D1 ran once and
\* D2 did not run.
C11_Witness ==
    /\ last.op = "RET"
    /\ vmstate = "returned"
    /\ count.call = 0
    /\ count.dfr = 2
    /\ Len(ran) = 1
    /\ ran[1].kind = "defer" /\ ran[1].id = 1

C13_CallThenReturn ==
    /\ [](CallDepth(stack) = Len(frames) - 1)
    /\ [][last'.op \in {"CALL", "CALLG"}
             => /\ frames' = Append(frames, frames'[Len(frames')])
                /\ frames'[Len(frames')].ret_ip = ip + 1
                /\ frames'[Len(frames')].dest = last'.b
                /\ frames'[Len(frames')].base = Len(stack) + 1
                /\ SubSeq(stack', 1, Len(stack)) = stack
                /\ stack'[Len(stack) + 1].tag = "CallFrame"
                /\ CallDepth(stack') = CallDepth(stack) + 1
                /\ ip' = 0]_vars
    /\ [][(last'.op \in {"RET", "SRET"} /\ Len(frames) > 1)
             => /\ frames' = SubSeq(frames, 1, Len(frames) - 1)
                /\ Len(stack') = Cur.base - 1
                /\ CallDepth(stack') = CallDepth(stack) - 1
                /\ ip' = Cur.ret_ip
                /\ vmstate' = "running"
                /\ \A i \in DOMAIN stack' :
                      stack'[i] =
                         IF i = frames[Len(frames) - 1].base + Cur.dest + 1
                         THEN Reg(last'.a) ELSE stack[i]]_vars

\* C13 witness: a callee loaded 42 and returned; the caller, at depth 0
\* again, holds 42 in the destination register R(1) of the call.
C13_Witness ==
    /\ last.op \in {"RET", "SRET"}
    /\ vmstate = "running"
    /\ count.call = 1
    /\ Len(frames) = 1
    /\ CallDepth(last.pre) = 1
    /\ CallDepth(stack) = 0
    /\ Reg(1) = IntV(42)
    /\ Reg(0) # IntV(42)

\* The host received the integer 3 as the chunk's result.
Returned3 ==
    /\ vmstate = "returned"
    /\ host = [kind |-> "value", tag |-> Undef, val |-> IntV(3)]

\* C14: executing REGI r1 1; REGI r2 2; ADD r0,r1,r2; SRET r0 terminates
\* and returns the integer 3 to the host: the run ends, and it ends in no
\* other way.
C14_AddReturnsThree ==
    /\ (chunk.instrs = AddChunk) ~> Returned3
    /\ []((chunk.instrs = AddChunk /\ vmstate # "running") => Returned3)
    /\ []((chunk.instrs = AddChunk /\ vmstate = "running") => ENABLED AddNext)

\* C14 witness: the chunk ran its four instructions and returned 3.
C14_Witness ==
    /\ chunk.instrs = AddChunk
    /\ last.op = "SRET"
    /\ last.n = 4
    /\ Returned3

\* The stack slots of the register window of frame f.
Window(f) == (f.base + 1)..(f.base + WindowSize(chunk))

LinedBefore(k) == {j \in 1..(k - 1) : offset_to_line(listing[j].off) # <<>>}

\* The entry before entry k that has a line, 0 when there is none.
PrevLined(k) ==
    IF LinedBefore(k) = {} THEN 0
    ELSE CHOOSE j \in LinedBefore(k) : \A m \in LinedBefore(k) : m <= j

RECURSIVE HexValue(_)
HexValue(ds) ==
    IF ds = <<>> THEN 0
    ELSE 16 * HexValue(SubSeq(ds, 1, Len(ds) - 1))
         + (CHOOSE d \in 0..15 : HexDigits[d + 1] = ds[Len(ds)])

\* txt is: open, "0x", n hexadecimal digits, close.
Shape(txt, open, close, n) ==
    /\ Len(txt) = n + 3
    /\ txt[1] = open
    /\ txt[2] = "0x"
    /\ txt[n + 3] = close
    /\ \A i \in 3..(n + 2) : \E d \in 1..16 : HexDigits[d] = txt[i]

\* txt is: open, "0x", n hexadecimal digits that write v, close.
Notation(txt, open, close, n, v) ==
    /\ Shape(txt, open, close, n)
    /\ HexValue(SubSeq(txt, 3, n + 2)) = v

DumpedBase ==
    IF cmd.name # "regs" THEN <<>>
    ELSE IF cmd.param.kind = "int"
    THEN (IF Abs(cmd.param.v) \in 1..(Len(frames) - 1)
          THEN <<frames[Len(frames) - Abs(cmd.param.v)].base>>
          ELSE <<>>)
    ELSE IF cmd.param.kind = "none" /\ err_frame # <<>>
    THEN <<err_frame[1].base>>
    ELSE <<>>

\* C20: dump_regs of a frame prints input_regs + extra_regs + 1 rows, row
\* i for the stack slot i above the frame's window base, in index order;
\* register 0 is labelled params/result, register i >= 1 with the i-th
\* declared name when the chunk declares at least i names and with
\* [SCRATCH] otherwise, also when the chunk declares no names at all.
C20_DumpRegsRows ==
    DumpedBase # <<>>
       => /\ Len(out) = chunk.input_regs + chunk.extra_regs + 1
          /\ \A k \in DOMAIN out :
                /\ out[k].i = k - 1
                /\ out[k].val = stack[DumpedBase[1] + k]
                /\ out[k].name =
                      (IF k = 1 THEN "params/result"
                       ELSE IF /\ chunk.dbg_args # <<>>
                               /\ Len(chunk.dbg_args[1]) >= k - 1
                            THEN chunk.dbg_args[1][k - 1]
                            ELSE "[SCRATCH]")

\* C20 witness: the registers of the error frame of a called chunk with
\* three registers and one declared name were dumped: params/result, the
\* name, the scratch label.
C20_Witness ==
    /\ cmd.name = "regs"
    /\ DumpedBase # <<>>
    /\ DumpedBase[1] > 0
    /\ chunk.dbg_args = <<<<"a">>>>
    /\ Len(out) = 3
    /\ out[1].name = "params/result"
    /\ out[2].name = "a"
    /\ out[3].name = "[SCRATCH]"
    /\ out[3].val = stack[DumpedBase[1] + 3]

\* C16: an ERR that reaches the host unhandled sets the error frame to
\* the frame that was active when it was raised; the error frame stays as
\* it is through every debugger command and ends only when the host clears
\* it; there is an error frame only after an unhandled error; :stack
\* reports it exactly when it is present, whatever the call stack holds,
\* and :regs without a parameter says "At top level." exactly when it is
\* absent.
C16_ErrorFrameRetained ==
    /\ [][(last'.n # last.n /\ last'.op = "ERR" /\ vmstate' = "error")
             => err_frame' = <<[id |-> Cur.id, base |-> Cur.base,
                                ip |-> ip]>>]_vars
    /\ [][(err_frame # <<>> /\ (dbg = "on" \/ dbg' = "on"))
             => err_frame' = err_frame]_vars
    /\ [][(err_frame # <<>> /\ err_frame' # err_frame)
             => (dbg = "off" /\ err_frame' = <<>>)]_vars
    /\ [](err_frame # <<>> => host.kind = "error")
    /\ [](cmd.name = "stack"
             => /\ Len(out) = Len(err_frame) + Len(frames) - 1
                /\ err_frame # <<>>
                      => /\ out[1].frame = "ERROR Frame"
                         /\ out[1].id = err_frame[1].id
                         /\ out[1].ip = err_frame[1].ip
                /\ \A k \in DOMAIN out :
                      k > Len(err_frame) => out[k].frame = "ID")
    /\ []((cmd.name = "regs" /\ cmd.param.kind = "none")
             => (err_frame = <<>> <=> out = Msg("At top level.")))

\* C16 witness: an error was raised at top level, so the call stack is
\* empty, and after other commands :stack reports the error frame alone.
C16_Witness ==
    /\ dbg = "on"
    /\ cmd.name = "stack"
    /\ err_frame # <<>>
    /\ host.kind = "error"
    /\ Len(frames) = 1
    /\ CallDepth(stack) = 0
    /\ dstate = "ok"
    /\ Len(out) = 1
    /\ out[1].frame = "ERROR Frame"
    /\ out[1].id = 0

\* C17: no step of the debugger - a command, or a step of the disassembly
\* a :dasm command started - changes the value stack (and so no register),
\* the call stack, the error frame or the global table; the executing
\* chunk, the instruction pointer and the continuations are left alone as
\* well.
C17_IntrospectionReadOnly ==
    [][(dbg = "on" \/ dbg' = "on")
          => /\ stack' = stack
             /\ frames' = frames
             /\ err_frame' = err_frame
             /\ globals' = globals
             /\ chunk' = chunk
             /\ ip' = ip
             /\ conts' = conts]_vars

\* C17 witness: after a disassembly, :regs-raw dumped a stack that holds a
\* call frame and whose error frame is set, one row per slot.
C17_Witness ==
    /\ dbg = "on"
    /\ cmd.name = "regs-raw"
    /\ err_frame # <<>>
    /\ listing # <<>>
    /\ Len(out) = Len(stack)
    /\ \E k \in DOMAIN out : out[k].name = "RESULT"
    /\ \A k \in DOMAIN out : out[k].val = stack[k]

\* The frames of the calls in progress below the active one.
Depth == Len(frames) - 1

\* The magnitude of the integer typed after :dasm or :regs.
Magnitude == IF cmd.param.v < 0 THEN 0 - cmd.param.v ELSE cmd.param.v

\* C21: :regs n and :dasm n act on the n-th frame of the call stack counted
\* from 1 at the innermost frame, a negative n standing for |n|.  :regs n
\* prints the registers of that one frame and of no other; :dasm n starts
\* one disassembly; an n of 0 or beyond the depth of the call stack prints
\* nothing, starts nothing and reports no error.
C21_NthFrameFromInnermost ==
    /\ []((cmd.name = "regs" /\ cmd.param.kind = "int")
             => IF Magnitude \in 1..Depth
                THEN /\ Len(out) = WindowSize(chunk)
                     /\ \A k \in DOMAIN out :
                           out[k].val =
                              stack[frames[Len(frames) - Magnitude].base + k]
                ELSE out = <<>>)
    /\ [][(/\ dbg = "on"
           /\ dstate # "running"
           /\ cmd'.name = "dasm"
           /\ cmd'.param.kind = "int")
             => /\ out' = <<>>
                /\ LET m == IF cmd'.param.v < 0 THEN 0 - cmd'.param.v
                            ELSE cmd'.param.v
                   IN  IF m \in 1..Depth
                       THEN dstate' = "running" /\ listing' = <<>>
                       ELSE UNCHANGED <<dstate, listing, op, pos>>]_vars

\* C21 witness: two calls are in progress, the outer caller holds a
\* closure in register 1 and the inner caller does not; :regs -2 printed
\* the outer caller's registers.
C21_Witness ==
    /\ cmd.name = "regs"
    /\ cmd.param = [kind |-> "int", v |-> -2]
    /\ Depth = 2
    /\ Len(out) >= 2
    /\ out[2].val = ClosureV(1)
    /\ stack[frames[2].base + 2] = Undef
    /\ stack[frames[1].base + 2] = ClosureV(1)

(***************************************************************************)
(* Properties of the binding builtins (specification SpecBind).            *)
(***************************************************************************)

\* The binding of key in the map m: <<v>>, or <<>> when there is none.
Binding(m, key) == IF key \in DOMAIN m THEN <<m[key]>> ELSE <<>>

\* The forms of ctl that are dyn forms.
DynForms(c) == {i \in DOMAIN c : c[i].form = "dyn"}

\* C22: when (dyn key value expr) returns after the evaluation of expr,
\* with a value or with an error, the dynamic binding of key is what it
\* was when the dyn form was called: the binding it had, or none.  A dyn
\* nested in a dyn on the same key puts back the value that one installed,
\* and when the outermost dyn returns the dynamic scope is what it was
\* before it.
C22_DynRestoresBinding ==
    [][(/\ ctl # <<>>
        /\ ctl[Len(ctl)].form = "dyn"
        /\ Len(ctl') < Len(ctl))
       => /\ Binding(dynamic_scope', ctl[Len(ctl)].key)
                = Binding(ctl[Len(ctl)].dyn0, ctl[Len(ctl)].key)
          /\ DynForms(ctl') = {} => dynamic_scope' = ctl[Len(ctl)].dyn0
          /\ ret' = ret
          /\ status' = status]_vars

\* An error left a dyn on x that is nested in a dyn on x, and x is bound
\* to the value the outer dyn installed, which the inner one had replaced.
C22_Witness ==
    /\ elast.op = "dyn-exit"
    /\ elast.key = "x"
    /\ status = "err"
    /\ Len(ctl) = 1
    /\ ctl[1].form = "dyn"
    /\ ctl[1].key = "x"
    /\ dynamic_scope = [x |-> IntV(1)]
    /\ elast.n = 3

\* The scopes searched from scope i outward, i first: i, the scope it is
\* nested in, and so on to the namespace (0).
RECURSIVE Enclosing(_, _)
Enclosing(sc, i) == IF i = 0 THEN <<0>> ELSE <<i>> \o Enclosing(sc, sc[i].outer)

\* The position in the search from the current scope of the first scope
\* that binds key; 0 when none does.
FirstBinding(key) ==
    LET path == Enclosing(scopes, Len(scopes))
        hits == {p \in DOMAIN path :
                    key \in DOMAIN DataOf(scopes, namespace, path[p])}
    IN  IF hits = {} THEN 0
        ELSE CHOOSE p \in hits : \A q \in hits : p <= q

\* Every binding of every lexical scope and of the namespace is kept,
\* but the one of key in scope i.
OthersKept(i, key) ==
    /\ Len(scopes') = Len(scopes)
    /\ \A j \in 0..Len(scopes), k \in Syms :
          <<j, k>> # <<i, key>>
          => Binding(DataOf(scopes', namespace', j), k)
                = Binding(DataOf(scopes, namespace, j), k)

\* The step is a call of the builtin `name`.
Calls(name) == elast'.op = name /\ elast'.n = elast.n + 1

\* C23: set! changes one binding: the dynamic one when the key is bound
\* dynamically, else the one of the first scope that binds the key on the
\* way from the current scope outward; the bindings of the same name in
\* all other scopes keep their values.  For a key that no scope binds it
\* returns an error and binds nothing.
C23_SetChangesOneBinding ==
    [][Calls("set!") =>
       LET key == elast'.key
           path == Enclosing(scopes, Len(scopes))
       IN  /\ (status' = "ok" /\ key \in DOMAIN dynamic_scope)
              => /\ Binding(dynamic_scope', key) = <<ret'.val>>
                 /\ \A k \in Syms \ {key} :
                       Binding(dynamic_scope', k) = Binding(dynamic_scope, k)
                 /\ OthersKept(-1, key)
           /\ (status' = "ok" /\ key \notin DOMAIN dynamic_scope)
              => /\ FirstBinding(key) # 0
                 /\ Binding(DataOf(scopes', namespace',
                                   path[FirstBinding(key)]), key)
                       = <<ret'.val>>
                 /\ OthersKept(path[FirstBinding(key)], key)
                 /\ dynamic_scope' = dynamic_scope
           /\ (key \notin DOMAIN dynamic_scope /\ FirstBinding(key) = 0)
              => /\ status' = "err"
                 /\ ~ret'.ok
           /\ status' = "err"
              => /\ ~ret'.ok
                 /\ UNCHANGED <<dynamic_scope, scopes, namespace>>]_vars

\* set! gave x the value 1 in the innermost scope, where it was 2; the x
\* of the namespace still is 1.
C23_Witness ==
    /\ elast = [op |-> "set!", key |-> "x", n |-> 1]
    /\ status = "ok"
    /\ dynamic_scope = <<>>
    /\ Len(scopes) = 1
    /\ scopes[1].data = [x |-> IntV(1)]
    /\ ret = Ok(IntV(1))
    /\ Binding(namespace, "x") = <<IntV(1)>>

\* C24: var binds the key in the innermost lexical scope only, never in
\* the namespace; when that scope already binds the key it returns an
\* error and the binding keeps its value; with no lexical scope it
\* returns an error and binds nothing; a binding of the same name in an
\* outer scope keeps its value and is shadowed.
C24_VarBindsInnermost ==
    [][Calls("var") =>
       LET key == elast'.key
           top == Len(scopes)
       IN  /\ status' = "ok"
              => /\ scopes # <<>>
                 /\ key \notin DOMAIN scopes[top].data
                 /\ Binding(scopes'[top].data, key) = <<ret'.val>>
                 /\ OthersKept(top, key)
                 /\ namespace' = namespace
                 /\ dynamic_scope' = dynamic_scope
                 /\ \A k \in Syms : k = key => FirstBinding(k)' = 1
           /\ (scopes # <<>> /\ key \in DOMAIN scopes[top].data)
              => status' = "err"
           /\ scopes = <<>> => status' = "err"
           /\ status' = "err"
              => /\ ~ret'.ok
                 /\ UNCHANGED <<dynamic_scope, scopes, namespace>>]_vars

\* Inside a lex, var bound x to 1 in the new scope; the x of the enclosing
\* scope still is 2 and the x of the namespace still is 1.
C24_Witness ==
    /\ elast = [op |-> "var", key |-> "x", n |-> 2]
    /\ status = "ok"
    /\ Len(scopes) = 2
    /\ scopes[2] = Scope([x |-> IntV(1)], 1)
    /\ scopes[1] = Scope([x |-> IntV(2)], 0)
    /\ Binding(namespace, "x") = <<IntV(1)>>
    /\ ret = Ok(IntV(1))

\* The step before was a successful undef of key.
Undefined(key) == elast.op = "undef" /\ elast.key = key /\ ret.ok

LexForms(c, i) == {j \in i..Len(c) : c[j].form = "lex"}

\* C26: lex pushes one new lexical scope and pops that scope on every way
\* out, so that the scope stack is as deep after the lex as before it,
\* when its forms succeed and when one of them returns an error; what var
\* binds inside the lex is not bound in the enclosing scope afterwards,
\* while set! inside the lex on a symbol of an outer scope changes the
\* outer binding.
C26_LexBalanced ==
    /\ [](\A i \in DOMAIN ctl :
             ctl[i].form = "lex"
             => Len(scopes) = ctl[i].depth0 + Cardinality(LexForms(ctl, i)))
    /\ [][/\ Calls("lex")
             => /\ scopes' = Append(scopes, Scope(<<>>, Len(scopes)))
                /\ UNCHANGED <<dynamic_scope, namespace>>
          /\ (ctl # <<>> /\ ctl[Len(ctl)].form = "lex" /\ Len(ctl') < Len(ctl))
             => /\ Len(scopes') = ctl[Len(ctl)].depth0
                /\ scopes' = SubSeq(scopes, 1, Len(scopes) - 1)
                /\ UNCHANGED <<dynamic_scope, namespace, status, ret>>
                /\ \A k \in Syms :
                      FirstBinding(k)' # 0 <=> k \in ctl[Len(ctl)].bound0
          /\ \A key \in Syms :
                (/\ Calls("set!")
                 /\ elast'.key = key
                 /\ status' = "ok"
                 /\ ctl # <<>>
                 /\ ctl[Len(ctl)].form = "lex"
                 /\ key \notin DOMAIN dynamic_scope
                 /\ key \notin DOMAIN DataOf(scopes, namespace, Len(scopes)))
                => /\ key \notin DOMAIN DataOf(scopes', namespace', Len(scopes))
                   /\ \E j \in 0..(Len(scopes) - 1) :
                         /\ Binding(DataOf(scopes, namespace, j), key) # <<>>
                         /\ Binding(DataOf(scopes', namespace', j), key)
                               = <<ret'.val>>]_vars

\* A form inside a lex returned an error, the lex has returned with that
\* error, and no lexical scope is left on the stack.
C26_Witness ==
    /\ elast.op = "lex-exit"
    /\ elast.n = 2
    /\ status = "err"
    /\ ~ret.ok
    /\ ctl = <<>>
    /\ scopes = <<>>

\* An integer, a list and a vector, as the tests of reader.rs print them.
IntExp(chars) == <<Tok("Int", chars)>>
ListOf(vec) == <<Tok("(", <<>>)>> \o Tokens(vec) \o <<Tok(")", <<>>)>>
VectorOf(vec) == <<Tok("#(", <<>>)>> \o Tokens(vec) \o <<Tok(")", <<>>)>>
QuoteOf(exp) == ListOf(<<SymbolExp(Str(<<"q", "u", "o", "t", "e">>)), exp>>)
BackQuoteOf(exp) ==
    ListOf(<<SymbolExp(Str(<<"b", "a", "c", "k", "-", "q", "u", "o", "t", "e">>)),
             exp>>)

\* The expression each form of FormTexts stands for, written out by hand
\* as test_wrap and test_quotes write out what they expect.
FormExp(f) ==
    CASE f = Str(<<"1">>) -> IntExp(Str(<<"1">>))
      [] f = Str(<<"x">>) -> SymbolExp(Str(<<"x">>))
      [] f = Str(<<"n", "i", "l">>) -> <<Tok("nil", <<>>)>>
      [] f = Str(<<"(", ")">>) -> <<Tok("nil", <<>>)>>
      [] f = Str(<<"(", "1", " ", "2", " ", "3", ")">>) ->
            ListOf(<<IntExp(Str(<<"1">>)), IntExp(Str(<<"2">>)),
                     IntExp(Str(<<"3">>))>>)
      [] f = Str(<<"#", "(", "1", " ", "x", ")">>) ->
            VectorOf(<<IntExp(Str(<<"1">>)), SymbolExp(Str(<<"x">>))>>)
      [] f = Str(<<"apostrophe", "x">>) -> QuoteOf(SymbolExp(Str(<<"x">>)))
      [] f = Str(<<"apostrophe", "(", "1", " ", ",", "3", ")">>) ->
            QuoteOf(ListOf(<<IntExp(Str(<<"1">>)),
                             SymbolExp(Str(<<",", "3">>))>>))
      [] f = Str(<<"backtick", "(", "1", " ", ",", "3", ")">>) ->
            BackQuoteOf(ListOf(<<IntExp(Str(<<"1">>)), SymbolExp(Str(<<",">>)),
                                 IntExp(Str(<<"3">>))>>))
      [] f = Str(<<"backtick", "(", "1", " ", ",", "@", "3", ")">>) ->
            BackQuoteOf(ListOf(<<IntExp(Str(<<"1">>)),
                                 SymbolExp(Str(<<",", "@">>)),
                                 IntExp(Str(<<"3">>))>>))
      [] f = Str(<<"backtick", "(", "1", " ", "backtick", "2", " ", ",", "@", "3", ")">>) ->
            BackQuoteOf(ListOf(<<IntExp(Str(<<"1">>)),
                                 QuoteOf(IntExp(Str(<<"2">>))),
                                 SymbolExp(Str(<<",", "@">>)),
                                 IntExp(Str(<<"3">>))>>))
      [] f = Str(<<"backtick", "(", "apostrophe", "(", ",", "x", ")", ")">>) ->
            BackQuoteOf(ListOf(<<QuoteOf(ListOf(<<SymbolExp(Str(<<",">>)),
                                                  SymbolExp(Str(<<"x">>))>>))>>))
      [] f = Str(<<"(", "backtick", "x", " ", ",", "3", ")">>) ->
            ListOf(<<BackQuoteOf(SymbolExp(Str(<<"x">>))),
                     SymbolExp(Str(<<",", "3">>))>>)

\* The expressions the forms of the text stand for, in source order.
FormExps == [i \in DOMAIN rforms |-> FormExp(rforms[i])]

\* The expression is a vector, a list or nil.
IsListExp(exp) == Head(exp)[1] \in {"#(", "(", "nil"}

\* C27 as stated: read returns the form itself when the text holds
\* exactly one top-level form and a vector of all forms in source order
\* when it holds two or more; read_list_wrap always returns a vector of
\* the forms; nil and () read as the same nil value.
C27_ReadReturnsForm ==
    rres.state # "none"
       => /\ rres.state = "ok"
          /\ rres.exp = IF Len(rforms) = 1 /\ ~rmode.always_wrap
                        THEN FormExps[1]
                        ELSE VectorOf(FormExps)

\* C27 amended: read returns the form itself when the text holds exactly
\* one top-level form and either list_only is not set or the form is a
\* list, a vector or nil; with list_only set a single form of any other
\* kind is returned as a vector of that one form.  read returns a vector
\* of all forms in source order when the text holds two or more, and
\* read_list_wrap always returns a vector of the forms, also for a single
\* form.  The texts nil and () read as the same nil value.
C27_ReadWrapsUnlessSingle ==
    rres.state # "none"
       => /\ rres.state = "ok"
          /\ rres.exp = IF /\ Len(rforms) = 1
                           /\ ~rmode.always_wrap
                           /\ rmode.list_only => IsListExp(FormExps[1])
                        THEN FormExps[1]
                        ELSE VectorOf(FormExps)

\* C27 witness: read with list_only returned the single symbol x as a
\* vector of one element.
C27_Witness ==
    /\ rres.state = "ok"
    /\ rmode.list_only
    /\ rforms = <<Str(<<"x">>)>>
    /\ rres.exp = VectorOf(<<SymbolExp(Str(<<"x">>))>>)

\* The text holds the single form f and was read by read, which returns
\* a single list as it is.
ReadOne(f) ==
    /\ rres.state # "none"
    /\ ~rmode.always_wrap
    /\ rforms = <<f>>

\* C28: 'F reads as (quote F); `F reads as (back-quote F) when it stands
\* in no other back-quote and as (quote F) when it stands inside a
\* back-quoted form; inside a back-quoted form, also under a quote in
\* it, , and ,@ are symbols of their own followed by the next form;
\* outside any back-quote, in a quoted form or after a back-quoted form
\* has ended, a comma is a character of the symbol it stands in.  The
\* same expansions are found in every form of a text of several forms.
C28_QuoteExpansion ==
    /\ ReadOne(Str(<<"apostrophe", "x">>))
          => rres.exp = QuoteOf(SymbolExp(Str(<<"x">>)))
    /\ ReadOne(Str(<<"apostrophe", "(", "1", " ", ",", "3", ")">>))
          => rres.exp = QuoteOf(ListOf(<<IntExp(Str(<<"1">>)),
                                         SymbolExp(Str(<<",", "3">>))>>))
    /\ ReadOne(Str(<<"backtick", "(", "1", " ", ",", "3", ")">>))
          => rres.exp = BackQuoteOf(ListOf(<<IntExp(Str(<<"1">>)),
                                             SymbolExp(Str(<<",">>)),
                                             IntExp(Str(<<"3">>))>>))
    /\ ReadOne(Str(<<"backtick", "(", "1", " ", ",", "@", "3", ")">>))
          => rres.exp = BackQuoteOf(ListOf(<<IntExp(Str(<<"1">>)),
                                             SymbolExp(Str(<<",", "@">>)),
                                             IntExp(Str(<<"3">>))>>))
    /\ ReadOne(Str(<<"backtick", "(", "1", " ", "backtick", "2", " ",
                     ",", "@", "3", ")">>))
          => rres.exp = BackQuoteOf(ListOf(<<IntExp(Str(<<"1">>)),
                                             QuoteOf(IntExp(Str(<<"2">>))),
                                             SymbolExp(Str(<<",", "@">>)),
                                             IntExp(Str(<<"3">>))>>))
    /\ ReadOne(Str(<<"backtick", "(", "apostrophe", "(", ",", "x", ")", ")">>))
          => rres.exp = BackQuoteOf(ListOf(<<QuoteOf(ListOf(
                                      <<SymbolExp(Str(<<",">>)),
                                        SymbolExp(Str(<<"x">>))>>))>>))
    /\ ReadOne(Str(<<"(", "backtick", "x", " ", ",", "3", ")">>))
          => rres.exp = ListOf(<<BackQuoteOf(SymbolExp(Str(<<"x">>))),
                                 SymbolExp(Str(<<",", "3">>))>>)
    /\ rres.state # "none" /\ Len(rforms) > 1
          => rres.exp = VectorOf(FormExps)

\* C28 witness: a back-quoted list holding a back-quoted 2 and ,@3 was
\* read: the outer back-quote became back-quote, the inner one quote,
\* and ,@ a symbol before the 3.
C28_Witness ==
    /\ ReadOne(Str(<<"backtick", "(", "1", " ", "backtick", "2", " ",
                     ",", "@", "3", ")">>))
    /\ rres.state = "ok"
    /\ Len(rres.exp) = 12
    /\ rres.exp[2] = Tok("Symbol", Str(<<"b", "a", "c", "k", "-", "q", "u", "o", "t", "e">>))
    /\ rres.exp[6] = Tok("Symbol", Str(<<"q", "u", "o", "t", "e">>))
    /\ rres.exp[9] = Tok("Symbol", Str(<<",", "@">>))

\* The characters a piece of a string literal stands for, written out
\* by hand: the escapes stand for newline, carriage return, tab, double
\* quote and one backslash, \x2f and \x2F for the character 0x2f,
\* \u{3bb} for the scalar 0x3bb and \u41 for the scalar 0x41; every
\* other piece stands for itself.
PieceChars(p) ==
    CASE p = Str(<<"\\", "n">>) -> <<10>>
      [] p = Str(<<"\\", "r">>) -> <<13>>
      [] p = Str(<<"\\", "t">>) -> <<9>>
      [] p = Str(<<"\\", "\"">>) -> <<34>>
      [] p = Str(<<"\\", "\\">>) -> <<92>>
      [] p = Str(<<"\\", "x", "2", "f">>) -> <<47>>
      [] p = Str(<<"\\", "x", "2", "F">>) -> <<47>>
      [] p = Str(<<"\\", "u", "{", "3", "b", "b", "}">>) -> <<955>>
      [] p = Str(<<"\\", "u", "4", "1">>) -> <<65>>
      [] OTHER -> p

\* The string the pieces of the text stand for.
PiecesString == StringExp(Concat([i \in DOMAIN rforms |-> PieceChars(rforms[i])]))

\* The reader returned the string exp, as it is or as the one element of
\* a vector.
ReadsAs(exp) ==
    /\ rres.state = "ok"
    /\ rres.exp \in {exp, VectorOf(<<exp>>)}

\* The escape \x80 is among the pieces of the text.
HasHighEscape == \E i \in DOMAIN rforms : rforms[i] = Str(<<"\\", "x", "8", "0">>)

\* C29 as stated: inside a string literal \n, \r, \t, \" and \\ stand for
\* newline, carriage return, tab, double quote and one backslash, \xHH
\* for the ASCII character with that code, \u with hex digits, with or
\* without braces, for the scalar with that value; an escaped double
\* quote does not end the string and the character after an escaped
\* backslash is not escaped; \xHH above 0x7f is a read error.
C29_StringEscapes ==
    rres.state # "none"
       => IF HasHighEscape THEN rres.state = "err" ELSE ReadsAs(PiecesString)

\* \u41 without braces stands at position i and is not followed by a
\* space.
BareScalarUnended(i) ==
    /\ rforms[i] = Str(<<"\\", "u", "4", "1">>)
    /\ i < Len(rforms) => rforms[i + 1] # Str(<<" ">>)

\* C29 as the code has it: the string is read as stated when every \u
\* without braces is followed by whitespace; a \u without braces that is
\* followed by the closing double quote, or by any other character that
\* is neither a hex digit nor whitespace, is a read error, as is \xHH
\* above 0x7f.
C29_StringEscapesSpaced ==
    rres.state # "none"
       => IF HasHighEscape \/ \E i \in DOMAIN rforms : BareScalarUnended(i)
          THEN rres.state = "err"
          ELSE ReadsAs(PiecesString)

\* C29 witness: the string literal "\u41" was read and the reader
\* returned a read error instead of the string A.
C29_Witness ==
    /\ rforms = <<Str(<<"\\", "u", "4", "1">>)>>
    /\ rtext = Str(<<"\"", "\\", "u", "4", "1", "\"">>)
    /\ rres.state = "err"
    /\ rres.err = "Invalid hex digit"

\* C30: a char converts to the CodePoint of that char and back to the
\* same char; a String converts to a String value whose heap content is
\* that String and back to an equal String; converting a Value of any
\* other variant to char or to String, or borrowing a &mut String from a
\* Value that is no String, returns a VM error and no value.
C30_ConversionsRoundTrip ==
    /\ tsrc.kind = "char" => tval = [tag |-> "CodePoint", val |-> tsrc.chr]
    /\ tsrc.kind = "String"
          => /\ tval.tag = "String"
             /\ tval.val \in DOMAIN theap
             /\ theap[tval.val] = tsrc.str
    /\ tsrc.kind = "char" /\ tres.to = "char"
          => tres.state = "ok" /\ tres.chr = tsrc.chr
    /\ tsrc.kind = "String" /\ tres.to = "String"
          => tres.state = "ok" /\ tres.str = tsrc.str
    /\ tres.to = "char" /\ tval.tag # "CodePoint"
          => tres.state = "err" /\ tres.err # ""
    /\ tres.to = "String" /\ tval.tag # "String"
          => tres.state = "err" /\ tres.err # ""
    /\ tres.to = "&mut String"
          => IF tval.tag = "String"
             THEN tres.state = "ok" /\ tres.h = tval.val
             ELSE tres.state = "err" /\ tres.err # ""

\* C30 witness: the host String of two chars, the first outside ASCII,
\* was allocated as the second string of the heap and converted back to
\* an equal String.
C30_Witness ==
    /\ tsrc = [kind |-> "String", chr |-> 0, str |-> <<2344, 97>>]
    /\ tval = [tag |-> "String", val |-> 2]
    /\ tres.state = "ok"
    /\ tres.to = "String"
    /\ tres.str = <<2344, 97>>

(***************************************************************************)
(* Properties of the line editor's words (specification SpecWords).        *)
(***************************************************************************)

\* The character at index i of the buffer, counted from 0.
BufAt(i) == lbuf[i + 1]

\* The character at index i is directly preceded by a backslash.
AfterBackslash(i) == i > 0 /\ BufAt(i - 1) = "\\"

\* The word w holds the index i.
Holds(w, i) == w[1] <= i /\ i < w[2]

\* C31: the words get_liner_words returns are in increasing order and
\* pairwise disjoint, with 0 <= start < end <= the length of the buffer;
\* every ( and ) not directly preceded by a backslash is a word of one
\* character of its own; a space, ( or ) directly preceded by a backslash
\* ends no word, and the word that holds the backslash holds it too.
C31_WordRanges ==
    lwords.called
       => LET w == lwords.res
          IN  /\ \A k \in DOMAIN w :
                    /\ 0 <= w[k][1]
                    /\ w[k][1] < w[k][2]
                    /\ w[k][2] <= Len(lbuf)
              /\ \A k \in DOMAIN w : k < Len(w) => w[k][2] <= w[k + 1][1]
              /\ \A i \in 0..(Len(lbuf) - 1) :
                    BufAt(i) \in {"(", ")"} /\ ~AfterBackslash(i)
                       => \E k \in DOMAIN w : w[k] = <<i, i + 1>>
              /\ \A i \in 0..(Len(lbuf) - 1) :
                    BufAt(i) \in {" ", "(", ")"} /\ AfterBackslash(i)
                       => \A k \in DOMAIN w :
                             /\ w[k][2] # i
                             /\ Holds(w[k], i - 1) => Holds(w[k], i)

\* C31 witness: the words of the buffer a\ ( were asked for: the escaped
\* space ended no word, the word ended before the parenthesis, and the
\* parenthesis is a word of its own.
C31_Witness ==
    /\ lbuf = <<"a", "\\", " ", "(">>
    /\ lwords.called
    /\ lwords.res = <<<<0, 3>>, <<3, 4>>>>

(***************************************************************************)
(* More properties of the binding builtins (specification SpecBind).       *)
(***************************************************************************)

\* This step is a call of dyn that returns an error without evaluating a
\* third form.
DynArgumentError ==
    /\ Calls("dyn")
    /\ status' = "err"
    /\ ctl' = ctl

\* C32 as stated: when dyn returns an error because of its arguments, the
\* dynamic scope is unchanged: a dynamic binding the key had before the
\* call is still there with the same value.
C32_DynErrorKeepsScope ==
    [][DynArgumentError => dynamic_scope' = dynamic_scope]_vars

\* C32 as the code has it: dyn returns an error and leaves the dynamic
\* scope unchanged when it is given no value form, when the key does not
\* evaluate to a symbol and when the key or the value form fails; given a
\* symbol and a value but not exactly three forms, it returns the error
\* after it removed the dynamic binding of the key, and every other
\* dynamic binding is unchanged.
C32_DynArityErrorDropsBinding ==
    [][DynArgumentError
          => \/ dynamic_scope' = dynamic_scope
             \/ /\ ret' = Err("dyn requires three expressions")
                /\ elast'.key \in DOMAIN dynamic_scope
                /\ \A k \in Syms :
                      Binding(dynamic_scope', k) =
                         IF k = elast'.key THEN <<>>
                         ELSE Binding(dynamic_scope, k)]_vars

\* C32 witness: inside the body of a dyn form that bound the key, a dyn on
\* the same key with a wrong number of forms returned its error, and the
\* key has no dynamic binding any more.
C32_Witness ==
    /\ status = "err"
    /\ ret = Err("dyn requires three expressions")
    /\ elast.op = "dyn"
    /\ ctl # <<>>
    /\ ctl[Len(ctl)].form = "dyn"
    /\ ctl[Len(ctl)].key = elast.key
    /\ elast.key \notin DOMAIN dynamic_scope


\* The handles among the constants of the chunk of handle h.
ChunkRefs(h) ==
    {kheap[h].constants[i].val :
        i \in {j \in 1..Len(kheap[h].constants) :
                  kheap[h].constants[j].tag \in {"Lambda", "Closure"}}}

\* The chunks disassemble_chunk comes to from the chunks of S.
RECURSIVE ReachFrom(_)
ReachStep(S) == S \cup UNION {ChunkRefs(h) : h \in S}
ReachFrom(S) == IF ReachStep(S) = S THEN S ELSE ReachFrom(ReachStep(S))

\* The chunk disassembled comes, through constants, to a chunk that is
\* among its own constants or those of its nested chunks.
CyclicFromRoot ==
    /\ kheap # <<>>
    /\ \E h \in ReachFrom({1}) : h \in ReachFrom(ChunkRefs(h))

\* disassemble_chunk returned to the host.
DisassemblyReturned == kstate \in {"ok", "chunk_error"}

\* C33 (as the specification states it): disassembling a chunk terminates
\* for every finite chunk, a chunk that is among its own constants or those
\* of its nested chunks included: every call of disassemble_chunk returns.
C33_DisassemblyTerminates == <>DisassemblyReturned

\* One iteration of the instruction loop that goes on to another one.
LoopIteration ==
    /\ kstate = "running"
    /\ kstate' = "running"
    /\ Len(kstack') = Len(kstack)
    /\ Top.looping
    /\ Top'.op # <<>>

\* C33 (what the code does): disassemble_chunk returns for every chunk that
\* comes to no chunk twice through its constants; the stack is exhausted
\* only by a chunk that comes to itself; and every iteration of the
\* instruction loop that goes on has taken at least one more byte of the
\* stream.
C33_AcyclicDisassemblyTerminates ==
    /\ (kheap # <<>> /\ ~CyclicFromRoot) ~> DisassemblyReturned
    /\ [](kstate = "aborted" => CyclicFromRoot)
    /\ [][LoopIteration => Top'.pos > Top.pos]_vars

\* C33 witness: the chunk disassembled is among its own constants, its
\* disassembly was called again and again until the stack had no room.
C33_Witness ==
    /\ kstate = "aborted"
    /\ Len(kstack) = MaxDepth
    /\ \A i \in 1..Len(kstack) : kstack[i].h = 1
    /\ kheap[1].code = MovMain


\* The parentheses of the pieces of ps from the i-th on, depth lists being
\* open before it: the number of openers left without a closer, or -1 when
\* a closer stands where no list is open.  The parentheses inside the
\* string literal and the comment are not counted.
RECURSIVE Unmatched(_, _, _)
Unmatched(ps, i, depth) ==
    IF i > Len(ps) THEN depth
    ELSE IF ps[i] = Str(<<")">>)
    THEN IF depth = 0 THEN -1 ELSE Unmatched(ps, i + 1, depth - 1)
    ELSE IF ps[i] \in {Str(<<"(">>), Str(<<"#", "(">>)}
    THEN Unmatched(ps, i + 1, depth + 1)
    ELSE Unmatched(ps, i + 1, depth)

OpenAtEnd == Unmatched(rforms, 1, 0)

\* C34 (as the specification states it): read returns Ok only for a text
\* in which every opener outside strings and comments has its closer; a
\* closer where no list is open gives the read error Unexpected ), and the
\* end of the text with a list open gives the read error Unclosed list(s).
C34_ReadChecksParens ==
    rres.state # "none" =>
       /\ rres.state = "ok" => OpenAtEnd = 0
       /\ OpenAtEnd = -1 => rres = ReadErr("Unexpected )")
       /\ OpenAtEnd > 0 => rres = ReadErr("Unclosed list(s)")

\* The text ends with the space, after something else.
EndsWithSpace == Len(rforms) > 1 /\ rforms[Len(rforms)] = Str(<<" ">>)

\* A quote is among the pieces of the text.
HasQuote == \E i \in DOMAIN rforms : rforms[i] = Str(<<"apostrophe">>)

\* C34 (what the code does): a closer where no list is open gives the
\* read error Unexpected ); a text that ends with lists open and with
\* something else than whitespace gives a read error, Unclosed list(s)
\* when the text has no quote; a text that ends with whitespace while
\* lists are open is read as if the innermost list were closed there: Ok
\* with one list open, a read error with more.
C34_ReadChecksParensUnlessSpaced ==
    rres.state # "none" =>
       /\ rres.state = "ok" => OpenAtEnd = 0 \/ (OpenAtEnd = 1 /\ EndsWithSpace)
       /\ OpenAtEnd = -1 => rres = ReadErr("Unexpected )")
       /\ OpenAtEnd > 0 /\ ~EndsWithSpace =>
             /\ rres.state = "err"
             /\ rres.err \in {"Unclosed list(s)", "Unexpected )"}
             /\ ~HasQuote => rres.err = "Unclosed list(s)"
       /\ OpenAtEnd > 1 =>
             /\ rres.state = "err"
             /\ rres.err \in {"Unclosed list(s)", "Unexpected )", "WTF?"}

\* C34 witness: the text  (a  followed by a space was read, and the reader
\* returned the list (a) instead of a read error.
C34_Witness ==
    /\ rforms = <<Str(<<"(">>), Str(<<"a">>), Str(<<" ">>)>>
    /\ rmode = [always_wrap |-> FALSE, list_only |-> FALSE]
    /\ rres = ReadOk(ListOf(<<SymbolExp(Str(<<"a">>))>>))

====
